---- MODULE Spec2Model ----
(***************************************************************************)
(* Conflict Data Explorer backend: the dual-backend query adapter          *)
(* (config/database.js), the schema initializer (config/initDb.js), the    *)
(* server start-up, rate limiters and error handler (server.js) and the     *)
(* events routes (routes/events.js).                                       *)
(*                                                                         *)
(* JavaScript strings are sequences of one-character strings, so that      *)
(* trim/toUpperCase/startsWith, the date regular expression and SQL LIKE   *)
(* are computed character by character.                                    *)
(***************************************************************************)
EXTENDS Integers, Sequences, FiniteSets, TLC

VARIABLES
    dbType,     \* db.type: "postgresql" or "sqlite", fixed when database.js loads
    phase,      \* process: "initializing" | "listening" | "exited"
    exitCode,   \* process exit code once phase = "exited" (-1 while running)
    initPc,     \* position of initializeDatabase in this process run
    runs,       \* number of process starts so far
    schema,     \* set of tables and indexes that exist in the store
    users,      \* users table: sequence of rows in insertion order
    events,     \* events table: sequence of rows in insertion order
    userSeq,    \* last value handed out by the users id generator
    eventSeq,   \* last value handed out by the events id generator
    now,        \* CURRENT_TIMESTAMP of the store (logical seconds)
    conn,       \* embedded handle: last insert rowid and change count
    posts,      \* the events inserted by POST /api/events so far: id and body
    inits,      \* number of times initializeDatabase has run to its end
    probe,      \* the last direct call of the adapter and what it gave
    reqs        \* per connection slot: the HTTP request being processed

vars == <<dbType, phase, exitCode, initPc, runs, schema, users, events,
          userSeq, eventSeq, now, conn, posts, inits, probe, reqs>>

store == <<schema, users, events, userSeq, eventSeq, now, conn>>

----------------------------------------------------------------------------
(* Bounds of the model *)

MaxRuns == 2        \* process starts against the same store
MaxPosts == 1       \* events inserted through POST /api/events
MaxClock == 1       \* ticks of the store clock

----------------------------------------------------------------------------
(* Text *)

Upper == <<"A","B","C","D","E","F","G","H","I","J","K","L","M",
           "N","O","P","Q","R","S","T","U","V","W","X","Y","Z">>
Lower == <<"a","b","c","d","e","f","g","h","i","j","k","l","m",
           "n","o","p","q","r","s","t","u","v","w","x","y","z">>
Digits == <<"0","1","2","3","4","5","6","7","8","9">>

\* characters in code-point order, for text comparison
CharOrder == <<"\n", " ", "%", "(", "-">> \o Digits \o Upper \o <<"_">> \o Lower

Range(seq) == {seq[i] : i \in 1..Len(seq)}

Chars == Range(CharOrder)

IndexOf(seq, c) ==
    IF \E i \in 1..Len(seq) : seq[i] = c
    THEN CHOOSE i \in 1..Len(seq) : seq[i] = c ELSE 0

\* position of a character in code-point order
OrdTable == [c \in Chars |-> IndexOf(CharOrder, c)]
Precedes(ord, x, y) == ord[x] < ord[y]

IsDigit(c) == c \in Range(Digits)

IsSpace(c) == c = " " \/ c = "\n"

\* String.prototype.toUpperCase / SQL LOWER, one character
CaseTable(from, to) ==
    [c \in Chars |-> IF IndexOf(from, c) > 0 THEN to[IndexOf(from, c)] ELSE c]
UpperTable == CaseTable(Lower, Upper)
LowerTable == CaseTable(Upper, Lower)
Lookup(table, c) == IF c \in DOMAIN table THEN table[c] ELSE c
UpperChar(c) == Lookup(UpperTable, c)
LowerChar(c) == Lookup(LowerTable, c)

ToUpperCase(s) == [i \in 1..Len(s) |-> UpperChar(s[i])]
ToLowerCase(s) == [i \in 1..Len(s) |-> LowerChar(s[i])]

RECURSIVE TrimLeft(_)
TrimLeft(s) ==
    IF Len(s) > 0 /\ IsSpace(s[1]) THEN TrimLeft(Tail(s)) ELSE s

RECURSIVE TrimRight(_)
TrimRight(s) ==
    IF Len(s) > 0 /\ IsSpace(s[Len(s)])
    THEN TrimRight(SubSeq(s, 1, Len(s) - 1)) ELSE s

\* String.prototype.trim
Trim(s) == TrimRight(TrimLeft(s))

\* String.prototype.startsWith
StartsWith(s, p) == Len(s) >= Len(p) /\ SubSeq(s, 1, Len(p)) = p

\* text comparison as the store does it: code point by code point
RECURSIVE TextLeq(_, _)
TextLeq(a, b) ==
    IF Len(a) = 0 THEN TRUE
    ELSE IF Len(b) = 0 THEN FALSE
    ELSE IF a[1] = b[1] THEN TextLeq(Tail(a), Tail(b))
    ELSE Precedes(OrdTable, a[1], b[1])

\* SQL LIKE: % matches any run of characters, _ matches one character
RECURSIVE Like(_, _)
Like(s, p) ==
    IF Len(p) = 0 THEN Len(s) = 0
    ELSE IF p[1] = "%"
         THEN Like(s, Tail(p)) \/ (Len(s) > 0 /\ Like(Tail(s), p))
    ELSE IF Len(s) = 0 THEN FALSE
    ELSE (p[1] = "_" \/ p[1] = s[1]) /\ Like(Tail(s), Tail(p))

----------------------------------------------------------------------------
(* Values bound to statement parameters and the calendar *)

TextV(s) == [t |-> "text", s |-> s, n |-> 0]
IntV(n) == [t |-> "int", s |-> <<>>, n |-> n]
NullV == [t |-> "null", s |-> <<>>, n |-> 0]

DigitVal(c) == IndexOf(Digits, c) - 1

\* /^\d{4}-\d{2}-\d{2}$/.test(date)
DateRegexTest(d) ==
    /\ Len(d) = 10
    /\ \A i \in {1, 2, 3, 4, 6, 7, 9, 10} : IsDigit(d[i])
    /\ d[5] = "-" /\ d[8] = "-"

DaysIn(y, m) ==
    IF m \in {4, 6, 9, 11} THEN 30
    ELSE IF m = 2
         THEN (IF (y % 4 = 0 /\ y % 100 # 0) \/ y % 400 = 0 THEN 29 ELSE 28)
    ELSE 31

\* a text the networked store's DATE type accepts in YYYY-MM-DD form
IsCalendarDate(d) ==
    /\ DateRegexTest(d)
    /\ LET y == 1000 * DigitVal(d[1]) + 100 * DigitVal(d[2])
                + 10 * DigitVal(d[3]) + DigitVal(d[4])
           m == 10 * DigitVal(d[6]) + DigitVal(d[7])
           dd == 10 * DigitVal(d[9]) + DigitVal(d[10])
       IN y >= 1 /\ m \in 1..12 /\ dd >= 1 /\ dd <= DaysIn(y, m)

----------------------------------------------------------------------------
(* Query adapter: config/database.js *)

\* A statement template is its leading text (what the classification reads),
\* the operation it denotes, its WHERE conditions in textual order and its
\* placeholders in textual order: 0 is "?", n > 0 is "$n".
Stmt(text, op, conds, ph) == [text |-> text, op |-> op, conds |-> conds, ph |-> ph]

Kw_SELECT == <<"S","E","L","E","C","T">>
Kw_WITH == <<"W","I","T","H">>
Kw_INSERT == <<"I","N","S","E","R","T">>
Kw_CREATE == <<"C","R","E","A","T","E">>

\* text.replace(/\$(\d+)/g, "?")
SqliteRewrite(ph) == [i \in 1..Len(ph) |-> 0]

\* sqliteDb.all / sqliteDb.run with an array of parameters: the k-th
\* placeholder takes the k-th parameter, a placeholder without a parameter
\* stays NULL, a parameter without a placeholder is a range error.
SqliteBind(ph, params) ==
    IF Len(params) > Len(ph)
    THEN [ok |-> FALSE, code |-> "SQLITE_RANGE", vals |-> <<>>]
    ELSE [ok |-> TRUE, code |-> "",
          vals |-> [i \in 1..Len(ph) |->
                      IF i <= Len(params) THEN params[i] ELSE NullV]]

MaxOf(ph) == IF Len(ph) = 0 THEN 0
             ELSE CHOOSE m \in {ph[i] : i \in 1..Len(ph)} :
                      \A i \in 1..Len(ph) : ph[i] <= m

\* pool.query(text, params): the server knows only $n, each $n takes
\* params[n]; "?" is a syntax error, and the number of parameters supplied
\* must be the number the statement requires.
PgBind(ph, params) ==
    IF \E i \in 1..Len(ph) : ph[i] = 0
    THEN [ok |-> FALSE, code |-> "42601", vals |-> <<>>]
    ELSE IF Len(params) # MaxOf(ph)
    THEN [ok |-> FALSE, code |-> "08P01", vals |-> <<>>]
    ELSE [ok |-> TRUE, code |-> "",
          vals |-> [i \in 1..Len(ph) |-> params[ph[i]]]]

StartsWithSelectOrWith(upper) ==
    StartsWith(upper, Kw_SELECT) \/ StartsWith(upper, Kw_WITH)

IsReadNoTrim(text) == StartsWithSelectOrWith(ToUpperCase(text))

\* text.trim().toUpperCase().startsWith("SELECT") || ...startsWith("WITH")
IsRead(text) == StartsWithSelectOrWith(ToUpperCase(Trim(text)))

----------------------------------------------------------------------------
(* The relational store: what each statement of the program does *)

\* the handle as the engine opens it: foreign keys are not enforced
OpenHandleDefault(type) == [lastID |-> 0, changes |-> 0, foreign_keys |-> FALSE]

\* the handle of a process: new sqlite3.Database(dbPath) and, right after,
\* sqliteDb.run("PRAGMA foreign_keys = ON"); the handle runs its statements
\* in the order they were submitted.  The pool of the networked backend has
\* no such setting.
OpenHandle(type) == [lastID |-> 0, changes |-> 0, foreign_keys |-> type = "sqlite"]

\* the store as one value, and the result of one statement
St == [schema |-> schema, users |-> users, events |-> events,
       userSeq |-> userSeq, eventSeq |-> eventSeq, conn |-> conn]

Failed(code, st) ==
    [ok |-> FALSE, code |-> code, rows |-> <<>>, rowCount |-> 0, st |-> st]
Done(rows, rowCount, st) ==
    [ok |-> TRUE, code |-> "", rows |-> rows, rowCount |-> rowCount, st |-> st]

ConstraintCode(dialect, pgCode) ==
    IF dialect = "postgresql" THEN pgCode ELSE "SQLITE_CONSTRAINT"
MissingTableCode(dialect) ==
    IF dialect = "postgresql" THEN "42P01" ELSE "SQLITE_ERROR"

UserByName(us, name) == SelectSeq(us, LAMBDA u : u.username = name)
UserById(us, id) == SelectSeq(us, LAMBDA u : u.id = id)
EventById(es, id) == SelectSeq(es, LAMBDA e : e.id = id)

\* CREATE TABLE IF NOT EXISTS users / events; events REFERENCES users(id)
ExecCreateTable(dialect, name, st) ==
    IF name = "events" /\ dialect = "postgresql" /\ "users" \notin st.schema
    THEN Failed(MissingTableCode(dialect), st)
    ELSE Done(<<>>, 0, [st EXCEPT !.schema = @ \cup {name}])

\* CREATE INDEX IF NOT EXISTS idx ON events(col)
ExecCreateIndex(dialect, name, st) ==
    IF "events" \notin st.schema
    THEN Failed(MissingTableCode(dialect), st)
    ELSE Done(<<>>, 0, [st EXCEPT !.schema = @ \cup {name}])

\* the statement written as an upsert: ON CONFLICT (username) DO UPDATE SET
\* password_hash, role, or INSERT OR REPLACE
ExecInsertUserOrReplace(dialect, vals, st) ==
    IF "users" \notin st.schema THEN Failed(MissingTableCode(dialect), st)
    ELSE LET id == st.userSeq + 1
             row == [id |-> id, username |-> vals[1].s,
                     password_hash |-> vals[2].s, role |-> vals[3].s]
             kept == SelectSeq(st.users, LAMBDA u : u.username # vals[1].s)
         IN Done(<<>>, 1,
                 [st EXCEPT !.users = Append(kept, row), !.userSeq = id,
                            !.conn = [@ EXCEPT !.lastID = id, !.changes = 1]])

\* INSERT INTO users ... ON CONFLICT (username) DO NOTHING  (networked)
\* INSERT OR IGNORE INTO users ...                          (embedded)
\* username is UNIQUE NOT NULL.  The networked store draws the SERIAL id
\* before it detects the conflict; the embedded store draws none for an
\* ignored row.
ExecInsertUserIfAbsent(dialect, vals, st) ==
    IF "users" \notin st.schema THEN Failed(MissingTableCode(dialect), st)
    ELSE IF Len(UserByName(st.users, vals[1].s)) > 0
    THEN Done(<<>>, 0,
              IF dialect = "postgresql"
              THEN [st EXCEPT !.userSeq = @ + 1]
              ELSE [st EXCEPT !.conn.changes = 0])
    ELSE LET id == st.userSeq + 1
             row == [id |-> id, username |-> vals[1].s,
                     password_hash |-> vals[2].s, role |-> vals[3].s]
         IN Done(<<>>, 1,
                 [st EXCEPT !.users = Append(@, row), !.userSeq = id,
                            !.conn = [@ EXCEPT !.lastID = id, !.changes = 1]])

\* SELECT id FROM users WHERE username = ?
ExecSelectUserId(dialect, vals, st) ==
    IF "users" \notin st.schema THEN Failed(MissingTableCode(dialect), st)
    ELSE LET found == UserByName(st.users, vals[1].s)
         IN Done([i \in 1..Len(found) |-> [id |-> found[i].id]], Len(found), st)

\* one row of the events table with the column defaults applied
EventRow(id, vals, createdBy, clk) ==
    [id |-> id, country |-> vals[1].s, event_type |-> vals[2].s,
     fatalities |-> vals[3].n, date |-> vals[4].s,
     description |-> (IF vals[5].t = "null" THEN <<>> ELSE vals[5].s),
     created_at |-> clk, created_by |-> createdBy]

\* country, event_type and date are NOT NULL; the networked DATE column
\* takes calendar dates only.  Empty code: the row is acceptable.
EventRowError(dialect, vals) ==
    IF vals[1].t = "null" \/ vals[2].t = "null" \/ vals[4].t = "null"
    THEN ConstraintCode(dialect, "23502")
    ELSE IF dialect = "postgresql" /\ ~IsCalendarDate(vals[4].s)
    THEN "22008"
    ELSE ""

\* created_by REFERENCES users(id): NULL (0) or the id of a user row
ForeignKeyOk(st, createdBy) ==
    createdBy = 0 \/ Len(UserById(st.users, createdBy)) > 0

\* the networked store always enforces the reference; the embedded engine
\* does so only on a handle on which PRAGMA foreign_keys = ON has run
Enforced(dialect, st) == dialect = "postgresql" \/ st.conn.foreign_keys

\* the insert written so that it takes the place of the newest row, as an
\* upsert on a reused id would
InsertOverwriting(err, row, dialect, orIgnore, returning, st) ==
    IF err # "" THEN Failed(err, st)
    ELSE IF Enforced(dialect, st) /\ ~ForeignKeyOk(st, row.created_by)
    THEN Failed(ConstraintCode(dialect, "23503"), st)
    ELSE Done(IF returning THEN <<row>> ELSE <<>>, 1,
              [st EXCEPT !.events = IF Len(@) = 0 THEN <<row>>
                                    ELSE [@ EXCEPT ![Len(@)] = row],
                         !.eventSeq = row.id,
                         !.conn = [@ EXCEPT !.lastID = row.id, !.changes = 1]])

\* INSERT INTO events (...) VALUES (six values) [RETURNING *]
\* The events table has no uniqueness constraint but its generated id, so
\* OR IGNORE never skips a row for being a duplicate.
InsertChecked(err, row, dialect, orIgnore, returning, st) ==
    IF err # ""
    THEN (IF orIgnore /\ err = "SQLITE_CONSTRAINT"
          THEN Done(<<>>, 0, [st EXCEPT !.conn.changes = 0])
          ELSE Failed(err, st))
    ELSE IF Enforced(dialect, st) /\ ~ForeignKeyOk(st, row.created_by)
    THEN Failed(ConstraintCode(dialect, "23503"), st)
    ELSE Done(IF returning THEN <<row>> ELSE <<>>, 1,
              [st EXCEPT !.events = Append(@, row), !.eventSeq = row.id,
                         !.conn = [@ EXCEPT !.lastID = row.id, !.changes = 1]])

ExecInsertEvent(dialect, vals, orIgnore, returning, st, clk) ==
    IF "events" \notin st.schema THEN Failed(MissingTableCode(dialect), st)
    ELSE InsertChecked(EventRowError(dialect, vals),
                       EventRow(st.eventSeq + 1, vals,
                                IF vals[6].t = "null" THEN 0 ELSE vals[6].n, clk),
                       dialect, orIgnore, returning, st)

RECURSIVE InsertEach(_, _, _, _, _)

\* one row is in, the rows after it follow; a failure undoes the statement
OneMore(rest, st) ==
    IF ~rest.ok THEN Failed(rest.code, st)
    ELSE Done(<<>>, 1 + rest.rowCount, rest.st)

ThenRest(one, dialect, vals, ids, st, clk) ==
    IF ~one.ok THEN Failed(one.code, st)
    ELSE OneMore(InsertEach(dialect, vals, ids, one.st, clk), st)

InsertEach(dialect, vals, ids, st, clk) ==
    IF Len(ids) = 0 THEN Done(<<>>, 0, st)
    ELSE ThenRest(ExecInsertEvent(dialect, vals \o <<IntV(ids[1].id)>>,
                                  FALSE, FALSE, st, clk),
                  dialect, vals, Tail(ids), st, clk)

\* INSERT INTO events (...) SELECT $1..$5, u.id FROM users u
\*   WHERE u.username = 'admin' ON CONFLICT DO NOTHING
ExecInsertEventFromAdmin(dialect, vals, st, clk) ==
    IF "users" \notin st.schema \/ "events" \notin st.schema
    THEN Failed(MissingTableCode(dialect), st)
    ELSE InsertEach(dialect, vals, UserByName(st.users, <<"a","d","m","i","n">>),
                    st, clk)

\* SELECT * FROM events WHERE id = ?
ExecSelectEventById(dialect, vals, st) ==
    IF "events" \notin st.schema THEN Failed(MissingTableCode(dialect), st)
    ELSE LET found == IF vals[1].t = "int" THEN EventById(st.events, vals[1].n)
                      ELSE <<>>
         IN Done(found, Len(found), st)

----------------------------------------------------------------------------
(* Filtered reads of the events table *)

\* one WHERE condition of the events queries, v the value bound to it
\*   AND LOWER(e.country) LIKE LOWER(?)   AND LOWER(e.event_type) LIKE LOWER(?)
\*   AND e.date >= ?                        AND e.date <= ?
CondHolds(cond, v, e) ==
    /\ v.t = "text"
    /\ IF cond \in {"country", "event_type"}
       THEN Like(ToLowerCase(e[cond]), ToLowerCase(v.s))
       ELSE TextLeq(IF cond = "start_date" THEN v.s ELSE e.date,
                    IF cond = "start_date" THEN e.date ELSE v.s)

Matches(conds, vals, e) ==
    \A i \in 1..Len(conds) : CondHolds(conds[i], vals[i], e)

\* the networked store casts the text of a date bound to DATE
CondsError(dialect, conds, vals) ==
    IF /\ dialect = "postgresql"
       /\ \E i \in 1..Len(conds) :
              /\ conds[i] \in {"start_date", "end_date"}
              /\ vals[i].t = "text" /\ ~IsCalendarDate(vals[i].s)
    THEN "22007" ELSE ""

\* FROM events e LEFT JOIN users u ON e.created_by = u.id, for one event:
\* a row for every matching user, or one row with a NULL username
JoinUsers(e, us) ==
    LET m == UserById(us, e.created_by)
        WithName(name) ==
            [id |-> e.id, country |-> e.country, event_type |-> e.event_type,
             fatalities |-> e.fatalities, date |-> e.date,
             description |-> e.description, created_at |-> e.created_at,
             created_by |-> e.created_by, created_by_username |-> name]
    IN IF Len(m) = 0 THEN <<WithName(<<>>)>>
       ELSE [i \in 1..Len(m) |-> WithName(m[i].username)]

RECURSIVE LeftJoin(_, _)
LeftJoin(es, us) ==
    IF Len(es) = 0 THEN <<>>
    ELSE JoinUsers(es[1], us) \o LeftJoin(Tail(es), us)

\* ORDER BY e.date DESC, e.created_at DESC; rows equal in both keys come in
\* an order the store chooses (tieAsc: by ascending or descending id)
Before(a, b, tieAsc) ==
    IF a.date # b.date THEN TextLeq(b.date, a.date)
    ELSE IF a.created_at # b.created_at THEN a.created_at > b.created_at
    ELSE IF tieAsc THEN a.id <= b.id ELSE a.id >= b.id

RECURSIVE InsertSorted(_, _, _)
InsertSorted(sorted, r, tieAsc) ==
    IF Len(sorted) = 0 THEN <<r>>
    ELSE IF Before(r, sorted[1], tieAsc) THEN <<r>> \o sorted
    ELSE <<sorted[1]>> \o InsertSorted(Tail(sorted), r, tieAsc)

RECURSIVE OrderRows(_, _)
OrderRows(rows, tieAsc) ==
    IF Len(rows) = 0 THEN <<>>
    ELSE InsertSorted(OrderRows(Tail(rows), tieAsc), rows[1], tieAsc)

Min(a, b) == IF a <= b THEN a ELSE b

\* LIMIT lim OFFSET off.  The embedded store reads a negative LIMIT as no
\* limit and a negative OFFSET as zero; the networked store rejects both.
LimitOffset(dialect, rows, lim, off) ==
    LET o == IF off < 0 THEN 0 ELSE off
        n == IF lim < 0 THEN Len(rows) ELSE lim
    IN SubSeq(rows, o + 1, Min(Len(rows), o + n))

LimitOffsetError(dialect, lim, off) ==
    IF dialect # "postgresql" THEN ""
    ELSE IF lim < 0 THEN "2201W"
    ELSE IF off < 0 THEN "2201X"
    ELSE ""

\* SELECT e.*, u.username as created_by_username FROM events e
\*   LEFT JOIN users u ON e.created_by = u.id WHERE 1=1 <conds>
\*   ORDER BY e.date DESC, e.created_at DESC, without LIMIT/OFFSET
FilteredJoin(conds, vals, st, tieAsc) ==
    OrderRows(LeftJoin(SelectSeq(st.events, LAMBDA e : Matches(conds, vals, e)),
                       st.users), tieAsc)

\* ... LIMIT ? OFFSET ?   (the two values bound after the conditions)
FirstError(a, b) == IF a # "" THEN a ELSE b

\* the rows of a read, unless the statement was in error
RowsOrError(err, rows, st) ==
    IF err # "" THEN Failed(err, st) ELSE Done(rows, Len(rows), st)

ExecSelectEventsPage(dialect, conds, vals, st, tieAsc) ==
    IF "events" \notin st.schema \/ "users" \notin st.schema
    THEN Failed(MissingTableCode(dialect), st)
    ELSE RowsOrError(
             FirstError(CondsError(dialect, conds, vals),
                        LimitOffsetError(dialect, vals[Len(conds) + 1].n,
                                         vals[Len(conds) + 2].n)),
             LimitOffset(dialect, FilteredJoin(conds, vals, st, tieAsc),
                         vals[Len(conds) + 1].n, vals[Len(conds) + 2].n),
             st)

\* SELECT COUNT(*) as total FROM events e WHERE 1=1 <conds>
ExecCountEvents(dialect, conds, vals, st) ==
    IF "events" \notin st.schema THEN Failed(MissingTableCode(dialect), st)
    ELSE RowsOrError(CondsError(dialect, conds, vals),
                     <<[total |-> Len(SelectSeq(st.events,
                                     LAMBDA e : Matches(conds, vals, e)))]>>,
                     st)

----------------------------------------------------------------------------
(* Aggregates of GET /api/events/stats *)

RECURSIVE SumFatalities(_)
SumFatalities(es) ==
    IF Len(es) = 0 THEN 0 ELSE es[1].fatalities + SumFatalities(Tail(es))

\* SUM over no rows is NULL
SumValue(es) == IF Len(es) = 0 THEN NullV ELSE IntV(SumFatalities(es))

RECURSIVE DistinctKeys(_, _, _)
DistinctKeys(es, col, seen) ==
    IF Len(es) = 0 THEN seen
    ELSE DistinctKeys(Tail(es), col,
                      IF \E i \in 1..Len(seen) : seen[i] = es[1][col]
                      THEN seen ELSE Append(seen, es[1][col]))

\* GROUP BY col: one row per distinct value, numbered in order of first
\* appearance (the id field orders rows of equal event_count)
GroupBy(es, col) ==
    LET keys == DistinctKeys(es, col, <<>>)
    IN [i \in 1..Len(keys) |->
          LET grp == SelectSeq(es, LAMBDA e : e[col] = keys[i])
          IN [id |-> i, key |-> keys[i], event_count |-> Len(grp),
              total_fatalities |-> SumValue(grp)]]

MoreEvents(a, b, tieAsc) ==
    IF a.event_count # b.event_count THEN a.event_count > b.event_count
    ELSE IF tieAsc THEN a.id <= b.id ELSE a.id >= b.id

RECURSIVE InsertByCount(_, _, _)
InsertByCount(sorted, r, tieAsc) ==
    IF Len(sorted) = 0 THEN <<r>>
    ELSE IF MoreEvents(r, sorted[1], tieAsc) THEN <<r>> \o sorted
    ELSE <<sorted[1]>> \o InsertByCount(Tail(sorted), r, tieAsc)

RECURSIVE OrderByCount(_, _)
OrderByCount(rows, tieAsc) ==
    IF Len(rows) = 0 THEN <<>>
    ELSE InsertByCount(OrderByCount(Tail(rows), tieAsc), rows[1], tieAsc)

TopCountries == 10

\* SELECT COUNT(*), SUM(fatalities), COUNT(DISTINCT country),
\*        COUNT(DISTINCT event_type) FROM events
ExecStatsOverall(dialect, st) ==
    IF "events" \notin st.schema THEN Failed(MissingTableCode(dialect), st)
    ELSE Done(<<[total_events |-> Len(st.events),
                 total_fatalities |-> SumValue(st.events),
                 countries_affected |-> Len(DistinctKeys(st.events, "country", <<>>)),
                 event_types |-> Len(DistinctKeys(st.events, "event_type", <<>>))]>>,
              1, st)

\* the statement without its LIMIT
ExecStatsByCountryNoLimit(dialect, st, tieAsc) ==
    IF "events" \notin st.schema THEN Failed(MissingTableCode(dialect), st)
    ELSE RowsOrError("", OrderByCount(GroupBy(st.events, "country"), tieAsc), st)

\* ... GROUP BY country ORDER BY event_count DESC LIMIT 10
ExecStatsByCountry(dialect, st, tieAsc) ==
    IF "events" \notin st.schema THEN Failed(MissingTableCode(dialect), st)
    ELSE RowsOrError("", LimitOffset(dialect,
                             OrderByCount(GroupBy(st.events, "country"), tieAsc),
                             TopCountries, 0),
                     st)

\* ... GROUP BY event_type ORDER BY event_count DESC
ExecStatsByType(dialect, st, tieAsc) ==
    IF "events" \notin st.schema THEN Failed(MissingTableCode(dialect), st)
    ELSE RowsOrError("", OrderByCount(GroupBy(st.events, "event_type"), tieAsc),
                     st)

----------------------------------------------------------------------------
(* db.query *)

\* what the store does with a bound statement
Execute(dialect, stmt, vals, st, clk, tieAsc) ==
    CASE stmt.op = "create_users" -> ExecCreateTable(dialect, "users", st)
      [] stmt.op = "create_events" -> ExecCreateTable(dialect, "events", st)
      [] stmt.op \in {"idx_events_country", "idx_events_date", "idx_events_type"}
            -> ExecCreateIndex(dialect, stmt.op, st)
      [] stmt.op = "insert_user_if_absent" -> ExecInsertUserIfAbsent(dialect, vals, st)
      [] stmt.op = "select_user_id" -> ExecSelectUserId(dialect, vals, st)
      [] stmt.op = "insert_event_from_admin"
            -> ExecInsertEventFromAdmin(dialect, vals, st, clk)
      [] stmt.op = "insert_event_or_ignore"
            -> ExecInsertEvent(dialect, vals, TRUE, FALSE, st, clk)
      [] stmt.op = "insert_event"
            -> ExecInsertEvent(dialect, vals, FALSE, FALSE, st, clk)
      [] stmt.op = "insert_event_returning"
            -> ExecInsertEvent(dialect, vals, FALSE, TRUE, st, clk)
      [] stmt.op = "select_event_by_id" -> ExecSelectEventById(dialect, vals, st)
      [] stmt.op = "select_events_page"
            -> ExecSelectEventsPage(dialect, stmt.conds, vals, st, tieAsc)
      [] stmt.op = "count_events" -> ExecCountEvents(dialect, stmt.conds, vals, st)
      [] stmt.op = "stats_overall" -> ExecStatsOverall(dialect, st)
      [] stmt.op = "stats_by_country" -> ExecStatsByCountry(dialect, st, tieAsc)
      [] stmt.op = "stats_by_type" -> ExecStatsByType(dialect, st, tieAsc)
      [] stmt.op = "select_one" -> Done(<<[one |-> 1]>>, 1, st)

\* the outcome of db.query: the promise rejects (ok = FALSE, error code) or
\* resolves with an object holding the fields named in keys
Rejected(code, st) ==
    [ok |-> FALSE, code |-> code, keys |-> {}, rows |-> <<>>, rowCount |-> 0,
     insertId |-> 0, st |-> st]
Resolved(keys, rows, rowCount, insertId, st) ==
    [ok |-> TRUE, code |-> "", keys |-> keys, rows |-> rows,
     rowCount |-> rowCount, insertId |-> insertId, st |-> st]

\* db.query of the postgresql object: pool.query(text, params)
PgResult(r, st) ==
    IF ~r.ok THEN Rejected(r.code, st)
    ELSE Resolved({"rows", "rowCount"}, r.rows, r.rowCount, 0,
                  [r.st EXCEPT !.conn = st.conn])

PgRun(b, stmt, st, clk, tieAsc) ==
    IF ~b.ok THEN Rejected(b.code, st)
    ELSE PgResult(Execute("postgresql", stmt, b.vals, st, clk, tieAsc), st)

PgQuery(stmt, params, st, clk, tieAsc) ==
    PgRun(PgBind(stmt.ph, params), stmt, st, clk, tieAsc)

\* db.query of the sqlite object
SqliteResultChangesAsId(r, text, st) ==
    IF ~r.ok THEN Rejected(r.code, st)
    ELSE IF IsRead(text)
    THEN Resolved({"rows"}, r.rows, 0, 0, r.st)
    ELSE Resolved({"rows", "rowCount", "insertId"}, <<>>,
                  r.st.conn.changes, r.st.conn.changes, r.st)

\* the callbacks of sqliteDb.all (a read) and of sqliteDb.run (the rest)
SqliteResult(r, text, st) ==
    IF ~r.ok THEN Rejected(r.code, st)
    ELSE IF IsRead(text)
    THEN Resolved({"rows"}, r.rows, 0, 0, r.st)
    ELSE Resolved({"rows", "rowCount", "insertId"}, <<>>,
                  r.st.conn.changes, r.st.conn.lastID, r.st)

SqliteRun(b, stmt, st, clk, tieAsc) ==
    IF ~b.ok THEN Rejected(b.code, st)
    ELSE SqliteResult(Execute("sqlite", stmt, b.vals, st, clk, tieAsc),
                      stmt.text, st)

SqliteQuery(stmt, params, st, clk, tieAsc) ==
    SqliteRun(SqliteBind(SqliteRewrite(stmt.ph), params), stmt, st, clk, tieAsc)

\* a failure of the driver or the connection, whatever the statement
DriverError(dialect) ==
    IF dialect = "postgresql" THEN "ECONNREFUSED" ELSE "SQLITE_IOERR"

DbQuery(dialect, stmt, params, st, clk, tieAsc, fault) ==
    IF fault THEN Rejected(DriverError(dialect), st)
    ELSE IF dialect = "postgresql" THEN PgQuery(stmt, params, st, clk, tieAsc)
    ELSE SqliteQuery(stmt, params, st, clk, tieAsc)

----------------------------------------------------------------------------
(* Schema initializer: config/initDb.js *)

S_admin == <<"a","d","m","i","n">>
S_user == <<"u","s","e","r">>

\* "\n" followed by n spaces: how the template literals of the source begin
Indent(n) == [i \in 1..(n + 1) |-> IF i = 1 THEN "\n" ELSE " "]

\* bcrypt.hash(plain, rounds): salted, so two hashes of one password differ.
\* The text of the hash is kept as three units: scheme, password, salt; the
\* salt of a call is named by the process run that made it.
BcryptHash(plain, salt) == <<"$2a$", plain, salt>>

CreateUsersTableStmt == Stmt(Indent(6) \o Kw_CREATE, "create_users", <<>>, <<>>)
CreateEventsTableStmt == Stmt(Indent(6) \o Kw_CREATE, "create_events", <<>>, <<>>)
CreateIndexStmt(name) == Stmt(Kw_CREATE, name, <<>>, <<>>)

\* VALUES ($1, $2, $3) ON CONFLICT (username) DO NOTHING, or
\* INSERT OR IGNORE ... VALUES (?, ?, ?)
InsertUserStmt(isPostgreSQL) ==
    Stmt(Indent(8) \o Kw_INSERT, "insert_user_if_absent", <<>>,
         IF isPostgreSQL THEN <<1, 2, 3>> ELSE <<0, 0, 0>>)

SeedEventPgStmt ==
    Stmt(Indent(10) \o Kw_INSERT, "insert_event_from_admin", <<>>, <<1, 2, 3, 4, 5>>)
SelectAdminIdStmt == Stmt(Kw_SELECT, "select_user_id", <<>>, <<0>>)
SeedEventSqliteStmt ==
    Stmt(Indent(12) \o Kw_INSERT, "insert_event_or_ignore", <<>>, <<0, 0, 0, 0, 0, 0>>)

sampleEvents == <<
    [country |-> <<"S","y","r","i","a">>,
     event_type |-> <<"A","r","m","e","d"," ","C","o","n","f","l","i","c","t">>,
     fatalities |-> 25,
     date |-> <<"2","0","2","4","-","0","1","-","1","5">>,
     description |-> <<"Armed clash between government forces and opposition groups in rural Damascus">>],
    [country |-> <<"U","k","r","a","i","n","e">>,
     event_type |-> <<"M","i","l","i","t","a","r","y"," ","A","c","t","i","o","n">>,
     fatalities |-> 12,
     date |-> <<"2","0","2","4","-","0","2","-","2","0">>,
     description |-> <<"Artillery strike on civilian infrastructure in eastern Ukraine">>],
    [country |-> <<"M","y","a","n","m","a","r">>,
     event_type |-> <<"C","i","v","i","l"," ","U","n","r","e","s","t">>,
     fatalities |-> 8,
     date |-> <<"2","0","2","4","-","0","3","-","1","0">>,
     description |-> <<"Violent crackdown on pro-democracy protesters in Yangon">>],
    [country |-> <<"A","f","g","h","a","n","i","s","t","a","n">>,
     event_type |-> <<"T","e","r","r","o","r","i","s","t"," ","A","t","t","a","c","k">>,
     fatalities |-> 45,
     date |-> <<"2","0","2","4","-","0","4","-","0","5">>,
     description |-> <<"Bomb explosion at a religious gathering in Kabul">>],
    [country |-> <<"S","o","m","a","l","i","a">>,
     event_type |-> <<"A","r","m","e","d"," ","C","o","n","f","l","i","c","t">>,
     fatalities |-> 18,
     date |-> <<"2","0","2","4","-","0","5","-","1","2">>,
     description |-> <<"Fighting between clan militias over territorial control">>] >>

EventParams(event) ==
    <<TextV(event.country), TextV(event.event_type), IntV(event.fatalities),
      TextV(event.date), TextV(event.description)>>

\* the awaits of initializeDatabase, in order
InitSteps == <<"createUsers", "createEvents", "idxCountry", "idxDate", "idxType",
               "seedAdmin", "seedUser", "seedEvents", "done">>

At(step, i) == [at |-> step, i |-> i]
InitStart == At("createUsers", 0)

\* a query or body field that was not sent, and one that was
Absent == [given |-> FALSE, v |-> 0]
Given(v) == [given |-> TRUE, v |-> v]

NoToken == [kind |-> "none", id |-> 0, username |-> <<>>, role |-> ""]
NoUser == [id |-> 0, username |-> <<>>, role |-> ""]
NoQuery == [country |-> <<>>, event_type |-> <<>>, start_date |-> <<>>,
            end_date |-> <<>>, page |-> Absent, limit |-> Absent]
NoBody == [country |-> <<>>, event_type |-> <<>>, fatalities |-> Absent,
           date |-> <<>>, description |-> <<>>]

NoProbe == [called |-> FALSE]

\* a connection slot with no request in it
NoRequest ==
    [pc |-> "idle", route |-> "", token |-> NoToken, user |-> NoUser,
     query |-> NoQuery, body |-> NoBody, nq |-> 0, rows |-> <<>>,
     insertId |-> NullV, status |-> 0, resp |-> [success |-> FALSE]]

Slots == {1}

SetStore(st) ==
    /\ schema' = st.schema
    /\ users' = st.users
    /\ events' = st.events
    /\ userSeq' = st.userSeq
    /\ eventSeq' = st.eventSeq
    /\ conn' = st.conn

\* process.exit(code)
Exit(code) ==
    /\ phase' = "exited"
    /\ exitCode' = code
    /\ reqs' = [s \in DOMAIN reqs |-> NoRequest]

\* one awaited db.query of initializeDatabase: on success go on to the next
\* step, on rejection the catch block rethrows and startServer exits with 1
InitQuery(r, next) ==
    IF r.ok
    THEN /\ SetStore(r.st)
         /\ initPc' = next
         /\ inits' = IF next.at = "done" THEN inits + 1 ELSE inits
         /\ UNCHANGED <<probe, posts, dbType, phase, exitCode, runs, now, reqs>>
    ELSE /\ Exit(1)
         /\ UNCHANGED <<probe, inits, posts, dbType, initPc, runs, now, schema, users, events,
                        userSeq, eventSeq, conn>>

Initializing(step) == phase = "initializing" /\ initPc.at = step

CreateUsersTable ==
    /\ Initializing("createUsers")
    /\ InitQuery(DbQuery(dbType, CreateUsersTableStmt, <<>>, St, now, TRUE, FALSE),
                 At("createEvents", 0))

CreateEventsTable ==
    /\ Initializing("createEvents")
    /\ InitQuery(DbQuery(dbType, CreateEventsTableStmt, <<>>, St, now, TRUE, FALSE),
                 At("idxCountry", 0))

CreateIndexes ==
    \E k \in 1..3 :
        LET step == <<"idxCountry", "idxDate", "idxType">>[k]
            name == <<"idx_events_country", "idx_events_date", "idx_events_type">>[k]
            next == <<"idxDate", "idxType", "seedAdmin">>[k]
        IN /\ Initializing(step)
           /\ InitQuery(DbQuery(dbType, CreateIndexStmt(name), <<>>, St, now,
                                TRUE, FALSE),
                        At(next, 0))

SeedAdminUser ==
    /\ Initializing("seedAdmin")
    /\ InitQuery(DbQuery(dbType, InsertUserStmt(dbType = "postgresql"),
                         <<TextV(S_admin),
                           TextV(BcryptHash("admin123", runs)),
                           TextV(S_admin)>>,
                         St, now, TRUE, FALSE),
                 At("seedUser", 0))

SeedRegularUser ==
    /\ Initializing("seedUser")
    /\ InitQuery(DbQuery(dbType, InsertUserStmt(dbType = "postgresql"),
                         <<TextV(S_user),
                           TextV(BcryptHash("user123", runs)),
                           TextV(S_user)>>,
                         St, now, TRUE, FALSE),
                 At("seedEvents", 1))

\* the embedded branch of the loop body, adminResult in hand:
\* if (adminResult.rows.length > 0) { await db.query(INSERT OR IGNORE ...) }
SeedWithAdminId(adminResult, event, next) ==
    IF adminResult.ok /\ Len(adminResult.rows) > 0
    THEN InitQuery(DbQuery(dbType, SeedEventSqliteStmt,
                           EventParams(event) \o <<IntV(adminResult.rows[1].id)>>,
                           adminResult.st, now, TRUE, FALSE), next)
    ELSE InitQuery(adminResult, next)

\* one pass of: for (const event of sampleEvents) { ... }
SeedSampleEvent ==
    /\ Initializing("seedEvents")
    /\ LET event == sampleEvents[initPc.i]
           next == IF initPc.i = Len(sampleEvents) THEN At("done", 0)
                   ELSE At("seedEvents", initPc.i + 1)
       IN IF dbType = "postgresql"
          THEN InitQuery(DbQuery(dbType, SeedEventPgStmt, EventParams(event),
                                 St, now, TRUE, FALSE), next)
          ELSE SeedWithAdminId(DbQuery(dbType, SelectAdminIdStmt,
                                       <<TextV(S_admin)>>, St, now, TRUE, FALSE),
                               event, next)

\* any awaited query of initializeDatabase rejects for a driver failure
InitializeFails ==
    /\ phase = "initializing"
    /\ initPc.at # "done"
    /\ Exit(1)
    /\ UNCHANGED <<probe, inits, posts, dbType, initPc, runs, now, schema, users, events,
                   userSeq, eventSeq, conn>>

----------------------------------------------------------------------------
(* Process: server.js *)

ListenAnytime == phase = "initializing"

\* startServer: await initializeDatabase(); app.listen(PORT, ...)
CanListen == phase = "initializing" /\ initPc.at = "done"

StartListening ==
    /\ CanListen
    /\ phase' = "listening"
    /\ UNCHANGED <<probe, inits, posts, dbType, exitCode, initPc, runs, schema, users, events,
                   userSeq, eventSeq, now, conn, reqs>>

\* SIGTERM / SIGINT: process.exit(0)
Shutdown ==
    /\ phase \in {"initializing", "listening"}
    /\ Exit(0)
    /\ UNCHANGED <<probe, inits, posts, dbType, initPc, runs, now, schema, users, events,
                   userSeq, eventSeq, conn>>

\* the process is started again on the same store: the modules load, a new
\* handle or pool is made and startServer runs
StartProcess ==
    /\ phase = "exited"
    /\ runs < MaxRuns
    /\ phase' = "initializing"
    /\ exitCode' = -1
    /\ initPc' = InitStart
    /\ runs' = runs + 1
    /\ conn' = OpenHandle(dbType)
    /\ UNCHANGED <<probe, inits, posts, dbType, schema, users, events, userSeq, eventSeq, now, reqs>>

\* the clock of the store advances by a second; seconds are seen to pass
\* between process runs and between requests
Tick ==
    /\ now < MaxClock
    /\ \/ phase = "exited"
       \/ phase = "listening" /\ \A s \in DOMAIN reqs : reqs[s].pc = "idle"
    /\ now' = now + 1
    /\ UNCHANGED <<probe, inits, posts, dbType, phase, exitCode, initPc, runs, schema, users, events,
                   userSeq, eventSeq, conn, reqs>>

----------------------------------------------------------------------------
(* Access control gate: middleware/auth.js *)

\* authenticateToken: 401 unless the bearer token verifies; on success the
\* decoded identity becomes req.user
AuthenticateToken(token) ==
    CASE token.kind = "none" ->
            [ok |-> FALSE, status |-> 401, reason |-> "missing", user |-> NoUser]
      [] token.kind = "expired" ->
            [ok |-> FALSE, status |-> 401, reason |-> "expired", user |-> NoUser]
      [] token.kind = "valid" ->
            [ok |-> TRUE, status |-> 0, reason |-> "",
             user |-> [id |-> token.id, username |-> token.username,
                       role |-> token.role]]
      [] OTHER ->
            [ok |-> FALSE, status |-> 401, reason |-> "invalid", user |-> NoUser]

\* requireRole(role): 403 unless req.user has the role
RequireRole(role, user) ==
    IF user.role = role
    THEN [ok |-> TRUE, status |-> 0, reason |-> "", user |-> user]
    ELSE [ok |-> FALSE, status |-> 403, reason |-> "forbidden", user |-> user]

Mw(name, role) == [mw |-> name, role |-> role]

\* the middleware of a route, run in the order the route lists them; the
\* first one that responds ends the request
RECURSIVE RunChain(_, _, _)
RunChain(chain, token, user) ==
    IF Len(chain) = 0
    THEN [ok |-> TRUE, status |-> 0, reason |-> "", user |-> user]
    ELSE LET g == IF chain[1].mw = "authenticateToken"
                  THEN AuthenticateToken(token)
                  ELSE RequireRole(chain[1].role, user)
         IN IF g.ok THEN RunChain(Tail(chain), token, g.user) ELSE g

\* a token the server issued at login names a user row; tokens that do not
\* verify are absent, malformed, wrongly signed or expired
TokenOf(kind, u) ==
    [kind |-> kind, id |-> u.id, username |-> u.username, role |-> u.role]

\* verification consults no store: a token signed with the process-wide key
\* for an administrator of an earlier database still verifies although no
\* row of this store has its id
FormerAdmin == [id |-> 1000, username |-> <<"r","o","o","t">>, role |-> S_admin]

TokenChoices ==
    {NoToken, [NoToken EXCEPT !.kind = "malformed"], TokenOf("valid", FormerAdmin)}
        \cup {TokenOf("valid", users[i]) : i \in 1..Len(users)}
        \cup {TokenOf("expired", users[i]) : i \in 1..Len(users)}

----------------------------------------------------------------------------
(* Events routes: routes/events.js *)

EventsGetChainOpen == <<>>
EventsPostChainNoRole == <<Mw("authenticateToken", "")>>

\* router.get("/", authenticateToken, handler)
EventsGetChain == <<Mw("authenticateToken", "")>>
\* router.post("/", authenticateToken, requireRole("admin"), handler)
EventsPostChain == <<Mw("authenticateToken", ""), Mw("requireRole", "admin")>>
\* router.get("/stats", authenticateToken, handler)
EventsStatsChain == <<Mw("authenticateToken", "")>>
\* GET /api/auth/me: bearer token required
AuthMeChain == <<Mw("authenticateToken", "")>>

DefaultPage == 1
DefaultLimit == 10

\* const { page = 1, limit = 10 } = req.query; query values are decimal
\* integer texts, read as the integers they spell
PageOf(q) == IF q.page.given THEN q.page.v ELSE DefaultPage
LimitOf(q) == IF q.limit.given THEN q.limit.v ELSE DefaultLimit

\* const offset = (page - 1) * limit
OffsetOf(q) == (PageOf(q) - 1) * LimitOf(q)

\* `%${text}%`
Contains(text) == <<"%">> \o text \o <<"%">>

QMarks(n) == [i \in 1..n |-> 0]
Dollars(n) == [i \in 1..n |-> i]

\* the page query: SELECT e.*, u.username ... WHERE 1=1, then one
\* " AND ..." per filter present, ORDER BY, LIMIT ? OFFSET ?
BuildPageQuery(q) ==
    LET c1 == IF q.country # <<>> THEN <<"country">> ELSE <<>>
        p1 == IF q.country # <<>> THEN <<TextV(Contains(q.country))>> ELSE <<>>
        c2 == IF q.event_type # <<>> THEN <<"event_type">> ELSE <<>>
        p2 == IF q.event_type # <<>> THEN <<TextV(Contains(q.event_type))>> ELSE <<>>
        c3 == IF q.start_date # <<>> THEN <<"start_date">> ELSE <<>>
        p3 == IF q.start_date # <<>> THEN <<TextV(q.start_date)>> ELSE <<>>
        c4 == IF q.end_date # <<>> THEN <<"end_date">> ELSE <<>>
        p4 == IF q.end_date # <<>> THEN <<TextV(q.end_date)>> ELSE <<>>
        conds == c1 \o c2 \o c3 \o c4
    IN [stmt |-> Stmt(Indent(6) \o Kw_SELECT, "select_events_page", conds,
                      QMarks(Len(conds) + 2)),
        params |-> p1 \o p2 \o p3 \o p4 \o <<IntV(LimitOf(q)), IntV(OffsetOf(q))>>]

BuildCountQueryNoEnd(q) ==
    LET c1 == IF q.country # <<>> THEN <<"country">> ELSE <<>>
        p1 == IF q.country # <<>> THEN <<TextV(Contains(q.country))>> ELSE <<>>
        c2 == IF q.event_type # <<>> THEN <<"event_type">> ELSE <<>>
        p2 == IF q.event_type # <<>> THEN <<TextV(Contains(q.event_type))>> ELSE <<>>
        c3 == IF q.start_date # <<>> THEN <<"start_date">> ELSE <<>>
        p3 == IF q.start_date # <<>> THEN <<TextV(q.start_date)>> ELSE <<>>
        conds == c1 \o c2 \o c3
    IN [stmt |-> Stmt(Indent(6) \o Kw_SELECT, "count_events", conds,
                      QMarks(Len(conds))),
        params |-> p1 \o p2 \o p3]

\* the count query: SELECT COUNT(*) as total ... WHERE 1=1 and the filters,
\* written out a second time
BuildCountQuery(q) ==
    LET c1 == IF q.country # <<>> THEN <<"country">> ELSE <<>>
        p1 == IF q.country # <<>> THEN <<TextV(Contains(q.country))>> ELSE <<>>
        c2 == IF q.event_type # <<>> THEN <<"event_type">> ELSE <<>>
        p2 == IF q.event_type # <<>> THEN <<TextV(Contains(q.event_type))>> ELSE <<>>
        c3 == IF q.start_date # <<>> THEN <<"start_date">> ELSE <<>>
        p3 == IF q.start_date # <<>> THEN <<TextV(q.start_date)>> ELSE <<>>
        c4 == IF q.end_date # <<>> THEN <<"end_date">> ELSE <<>>
        p4 == IF q.end_date # <<>> THEN <<TextV(q.end_date)>> ELSE <<>>
        conds == c1 \o c2 \o c3 \o c4
    IN [stmt |-> Stmt(Indent(6) \o Kw_SELECT, "count_events", conds,
                      QMarks(Len(conds))),
        params |-> p1 \o p2 \o p3 \o p4]

\* Math.ceil(total / limit); a division by zero is not a finite number
CeilDiv(a, b) ==
    IF b = 0 THEN [finite |-> FALSE, v |-> 0]
    ELSE IF b > 0 THEN [finite |-> TRUE, v |-> (a + b - 1) \div b]
    ELSE [finite |-> TRUE, v |-> 0 - (a \div (0 - b))]

\* a body field sent as a JSON string
Text(s) == [given |-> TRUE, v |-> 0, s |-> s]
IsText(f) == "s" \in DOMAIN f

NaN == [nan |-> TRUE, v |-> 0]
Num(n) == [nan |-> FALSE, v |-> n]

RECURSIVE LeadingDigits(_)
LeadingDigits(s) ==
    IF Len(s) = 0 \/ ~IsDigit(s[1]) THEN <<>>
    ELSE <<s[1]>> \o LeadingDigits(Tail(s))

RECURSIVE Decimal(_)
Decimal(ds) ==
    IF Len(ds) = 0 THEN 0
    ELSE 10 * Decimal(SubSeq(ds, 1, Len(ds) - 1)) + DigitVal(ds[Len(ds)])

Signed(neg, ds) ==
    IF Len(ds) = 0 THEN NaN ELSE Num(IF neg THEN 0 - Decimal(ds) ELSE Decimal(ds))

Unsigned(t) == IF Len(t) > 0 /\ t[1] \in {"-", "+"} THEN Tail(t) ELSE t

FirstIsMinus(t) == Len(t) > 0 /\ t[1] = "-"

\* parseInt(string): leading white space is skipped, then an optional sign
\* and the longest run of digits are read; what follows is ignored, and
\* without a digit the result is NaN
ParseInt(s) == Signed(FirstIsMinus(TrimLeft(s)), LeadingDigits(Unsigned(TrimLeft(s))))

\* the truthiness of a body field: undefined, 0 and "" are falsy
Truthy(f) == f.given /\ (IF IsText(f) THEN f.s # <<>> ELSE f.v # 0)

\* const fatalitiesNum = fatalities ? parseInt(fatalities) : 0
FatalitiesNum(body) ==
    IF ~Truthy(body.fatalities) THEN Num(0)
    ELSE IF IsText(body.fatalities) THEN ParseInt(body.fatalities.s)
    ELSE Num(body.fatalities.v)

\* the checks of the POST handler before the insert: the status it answers
\* with, or 0 when the body passes
PostValidation(body) ==
    IF body.country = <<>> \/ body.event_type = <<>> \/ body.date = <<>> THEN 400
    ELSE IF ~DateRegexTest(body.date) THEN 400
    ELSE IF FatalitiesNum(body).nan \/ FatalitiesNum(body).v < 0 THEN 400
    ELSE 0

\* INSERT INTO events (...) VALUES ($1..$6) RETURNING *, or VALUES (?, ...)
InsertEventStmt(type) ==
    IF type = "postgresql"
    THEN Stmt(Indent(8) \o Kw_INSERT, "insert_event_returning", <<>>, Dollars(6))
    ELSE Stmt(Indent(8) \o Kw_INSERT, "insert_event", <<>>, QMarks(6))

InsertEventParams(body, user) ==
    <<TextV(body.country), TextV(body.event_type), IntV(FatalitiesNum(body).v),
      TextV(body.date),
      IF body.description = <<>> THEN NullV ELSE TextV(body.description),
      IntV(user.id)>>

SelectEventByIdStmt == Stmt(Kw_SELECT, "select_event_by_id", <<>>, QMarks(1))

StatsStmt(op) == Stmt(Indent(6) \o Kw_SELECT, op, <<>>, <<>>)

\* the catch block of the POST handler
PostErrorStatus(code) ==
    IF code = "23505" \/ code = "SQLITE_CONSTRAINT" THEN 400 ELSE 500

----------------------------------------------------------------------------
(* Requests *)

Q(country, event_type, start_date, end_date, page, limit) ==
    [country |-> country, event_type |-> event_type, start_date |-> start_date,
     end_date |-> end_date, page |-> page, limit |-> limit]

D_Feb01 == <<"2","0","2","4","-","0","2","-","0","1">>
D_Apr05 == <<"2","0","2","4","-","0","4","-","0","5">>

\* query strings of GET /api/events sent in the model
GetQueries ==
    { Q(<<>>, <<>>, <<>>, <<>>, Absent, Absent),
      Q(<<>>, <<>>, <<>>, <<>>, Given(0), Absent),
      Q(<<>>, <<>>, <<>>, <<>>, Given(2), Given(2)),
      Q(<<>>, <<>>, <<>>, <<>>, Given(1), Given(0)),
      Q(<<>>, <<>>, <<>>, <<>>, Given(1), Given(-1)),
      Q(<<"s","y","r">>, <<>>, <<>>, <<>>, Absent, Absent),
      Q(<<"y","e","m","e","n">>, <<>>, <<>>, <<>>, Absent, Absent),
      Q(<<"s","_","r">>, <<>>, <<>>, <<>>, Absent, Absent),
      Q(<<>>, <<"a","r","m","e","d">>, D_Feb01, <<>>, Absent, Given(1)),
      Q(<<"a">>, <<"t">>, D_Feb01, D_Apr05, Given(1), Absent) }

B(country, event_type, fatalities, date, description) ==
    [country |-> country, event_type |-> event_type, fatalities |-> fatalities,
     date |-> date, description |-> description]

S_Yemen == <<"Y","e","m","e","n">>
S_ArmedConflict == <<"A","r","m","e","d"," ","C","o","n","f","l","i","c","t">>
S_Other == <<"O","t","h","e","r">>
D_Jul01 == <<"2","0","2","4","-","0","7","-","0","1">>

\* a description with the characters that HTML escaping would rewrite
S_Clashes == <<"A","&","B"," ","<","i",">","'","x","'"," ","\"","q","\"">>

\* request bodies of POST /api/events sent in the model
PostBodies ==
    { B(S_Yemen, S_ArmedConflict, Given(20), D_Jul01, S_Clashes),
      B(S_Yemen, S_Other, Absent, D_Apr05, <<>>),
      B(S_Yemen, S_ArmedConflict, Given(-5), D_Jul01, <<"Too short">>),
      B(S_Yemen, S_ArmedConflict, Given(3),
        <<"2","0","2","4","-","7","-","1">>, <<>>),
      B(S_Yemen, S_ArmedConflict, Given(3),
        <<"2","0","2","4","-","1","3","-","4","5">>, <<>>),
      B(<<>>, S_ArmedConflict, Given(3), D_Jul01, <<>>),
      B(S_Yemen, S_Other, Text(<<"m","a","n","y">>), D_Jul01, <<>>),
      B(S_Yemen, S_Other, Text(<<"1","2","a","b","c">>), D_Jul01, <<>>) }

Serving(s, pc) == phase = "listening" /\ reqs[s].pc = pc

\* res.status(status).json(resp)
Respond(s, r, status, resp) ==
    reqs' = [reqs EXCEPT ![s] = [r EXCEPT !.pc = "done", !.status = status,
                                          !.resp = resp]]

Refuse(s, r, g) ==
    Respond(s, r, g.status, [success |-> FALSE, reason |-> g.reason])

\* the catch block of a handler: console.error(error), then 500
InternalError(s, r, code) ==
    Respond(s, r, 500, [success |-> FALSE, message |-> "Internal server error",
                        logged |-> code])

\* GET /api/events: the gate, then the handler up to its first await
ArriveGetEvents(s) ==
    /\ Serving(s, "idle")
    /\ \E token \in TokenChoices :
         LET g == RunChain(EventsGetChain, token, NoUser)
             r == [NoRequest EXCEPT !.route = "GET /api/events", !.token = token]
         IN IF ~g.ok THEN Refuse(s, r, g)
            ELSE \E q \in GetQueries :
                   reqs' = [reqs EXCEPT ![s] =
                              [r EXCEPT !.pc = "page", !.user = g.user,
                                        !.query = q, !.nq = 1]]
    /\ UNCHANGED <<probe, inits, posts, dbType, phase, exitCode, initPc, runs, schema, users,
                   events, userSeq, eventSeq, now, conn>>

\* await db.query(text, params) in the running process, with no driver fault
Await(b, tieAsc) == DbQuery(dbType, b.stmt, b.params, St, now, tieAsc, FALSE)

PageResult(s, r) ==
    /\ SetStore(r.st)
    /\ IF ~r.ok THEN InternalError(s, reqs[s], r.code)
       ELSE reqs' = [reqs EXCEPT ![s].pc = "count", ![s].rows = r.rows,
                                 ![s].nq = 2]

\* the page query runs; the handler goes on to send the count query
ExecPage(s) ==
    /\ Serving(s, "page")
    /\ \E tieAsc \in BOOLEAN :
         PageResult(s, Await(BuildPageQuery(reqs[s].query), tieAsc))
    /\ UNCHANGED <<probe, inits, posts, dbType, phase, exitCode, initPc, runs, now>>

\* res.json({ success, data: { events, pagination } })
EventsPage(rows, page, limit, total) ==
    [success |-> TRUE, events |-> rows, page |-> page, limit |-> limit,
     total |-> total, pages |-> CeilDiv(total, limit)]

CountResult(s, q, r) ==
    /\ SetStore(r.st)
    /\ IF ~r.ok \/ Len(r.rows) = 0
       THEN InternalError(s, reqs[s], IF r.ok THEN "TypeError" ELSE r.code)
       ELSE Respond(s, reqs[s], 200,
                    EventsPage(reqs[s].rows, PageOf(q), LimitOf(q),
                               r.rows[1].total))

\* the count query runs; the handler responds
ExecCount(s) ==
    /\ Serving(s, "count")
    /\ CountResult(s, reqs[s].query,
                   Await(BuildCountQuery(reqs[s].query), TRUE))
    /\ UNCHANGED <<probe, inits, posts, dbType, phase, exitCode, initPc, runs, now>>

\* POST /api/events: the gate, the checks of the handler, then the insert
\* is sent (req.user.id is read to build its parameters)
ArrivePostEvents(s) ==
    /\ Serving(s, "idle")
    /\ \E token \in TokenChoices :
         LET g == RunChain(EventsPostChain, token, NoUser)
             r == [NoRequest EXCEPT !.route = "POST /api/events", !.token = token]
         IN IF ~g.ok THEN Refuse(s, r, g)
            ELSE \E body \in PostBodies :
              LET rb == [r EXCEPT !.user = g.user, !.body = body]
              IN IF PostValidation(body) # 0
                 THEN Respond(s, rb, PostValidation(body),
                              [success |-> FALSE, reason |-> "validation"])
                 ELSE IF g.user = NoUser
                 THEN InternalError(s, rb, "TypeError")
                 ELSE /\ Len(posts) < MaxPosts
                      /\ reqs' = [reqs EXCEPT ![s] =
                                    [rb EXCEPT !.pc = "insert", !.nq = 1]]
    /\ UNCHANGED <<probe, inits, posts, dbType, phase, exitCode, initPc, runs, schema, users,
                   events, userSeq, eventSeq, now, conn>>

\* the catch block of the POST handler
PostError(s, code) ==
    Respond(s, reqs[s], PostErrorStatus(code), [success |-> FALSE, logged |-> code])

\* res.status(201).json({ success, data: { event: rows[0] } })
Created(s, rows) ==
    Respond(s, reqs[s], 201, [success |-> TRUE, event |-> SubSeq(rows, 1, 1)])

InsertResult(s, r) ==
    /\ SetStore(r.st)
    /\ posts' = IF r.ok
                THEN Append(posts, [id |-> r.st.eventSeq, body |-> reqs[s].body,
                                    by |-> s])
                ELSE posts
    /\ IF ~r.ok THEN PostError(s, r.code)
       ELSE IF dbType = "postgresql" THEN Created(s, r.rows)
       ELSE reqs' = [reqs EXCEPT
                       ![s].pc = "select", ![s].nq = 2,
                       ![s].insertId = IF "insertId" \in r.keys
                                       THEN IntV(r.insertId) ELSE NullV]

SelectResult(s, r) ==
    /\ SetStore(r.st)
    /\ IF ~r.ok THEN PostError(s, r.code) ELSE Created(s, r.rows)

\* the insert runs: the networked branch responds with RETURNING's row, the
\* embedded branch sends the select of result.insertId
ExecInsert(s) ==
    /\ Serving(s, "insert")
    /\ InsertResult(s, DbQuery(dbType, InsertEventStmt(dbType),
                               InsertEventParams(reqs[s].body, reqs[s].user),
                               St, now, TRUE, FALSE))
    /\ UNCHANGED <<probe, inits, dbType, phase, exitCode, initPc, runs, now>>

\* the id taken from the handle when the select is sent: the rowid of the
\* last insert of the handle, whichever request made it
LastInsertRowid(s) == IntV(conn.lastID)

\* [result.insertId]: the id that the insert of this request resolved with
InsertedId(s) == reqs[s].insertId

\* SELECT * FROM events WHERE id = ? runs; the handler responds
ExecSelect(s) ==
    /\ Serving(s, "select")
    /\ SelectResult(s, DbQuery(dbType, SelectEventByIdStmt, <<InsertedId(s)>>,
                               St, now, TRUE, FALSE))
    /\ UNCHANGED <<probe, inits, posts, dbType, phase, exitCode, initPc, runs, now>>

\* GET /api/events/stats: the gate, then three queries one after another
ArriveGetStats(s) ==
    /\ Serving(s, "idle")
    /\ \E token \in TokenChoices :
         LET g == RunChain(EventsStatsChain, token, NoUser)
             r == [NoRequest EXCEPT !.route = "GET /api/events/stats",
                                    !.token = token]
         IN IF ~g.ok THEN Refuse(s, r, g)
            ELSE reqs' = [reqs EXCEPT ![s] =
                            [r EXCEPT !.pc = "stats1", !.user = g.user, !.nq = 1]]
    /\ UNCHANGED <<probe, inits, posts, dbType, phase, exitCode, initPc, runs, schema, users,
                   events, userSeq, eventSeq, now, conn>>

\* res.json({ success, data: { overall, by_country, by_type } })
Statistics(got) ==
    [success |-> TRUE, overall |-> got[1][1], by_country |-> got[2],
     by_type |-> got[3]]

StatsResult(s, k, r) ==
    /\ SetStore(r.st)
    /\ IF ~r.ok THEN InternalError(s, reqs[s], r.code)
       ELSE IF k < 3
       THEN reqs' = [reqs EXCEPT ![s].pc = <<"stats2", "stats3">>[k],
                                 ![s].rows = Append(@, r.rows), ![s].nq = k + 1]
       ELSE Respond(s, reqs[s], 200, Statistics(Append(reqs[s].rows, r.rows)))

\* one of the three queries of the handler runs; after the third it responds
ExecStats(s) ==
    /\ phase = "listening"
    /\ \E k \in 1..3, tieAsc \in BOOLEAN :
         /\ reqs[s].pc = <<"stats1", "stats2", "stats3">>[k]
         /\ StatsResult(s, k,
                DbQuery(dbType,
                        StatsStmt(<<"stats_overall", "stats_by_country",
                                    "stats_by_type">>[k]),
                        <<>>, St, now, tieAsc, FALSE))
    /\ UNCHANGED <<probe, inits, posts, dbType, phase, exitCode, initPc, runs, now>>

\* GET /api/auth/me: the gate, then the identity of the token
ArriveGetMe(s) ==
    /\ Serving(s, "idle")
    /\ \E token \in TokenChoices :
         LET g == RunChain(AuthMeChain, token, NoUser)
             r == [NoRequest EXCEPT !.route = "GET /api/auth/me", !.token = token]
         IN IF ~g.ok THEN Refuse(s, r, g)
            ELSE Respond(s, [r EXCEPT !.user = g.user], 200,
                         [success |-> TRUE, user |-> g.user])
    /\ UNCHANGED <<probe, inits, posts, dbType, phase, exitCode, initPc, runs, schema, users,
                   events, userSeq, eventSeq, now, conn>>

\* the query a handler awaits rejects for a driver failure: its catch block
\* answers 500 (the error code is none the POST handler maps to 400)
QueryFails(s) ==
    /\ phase = "listening"
    /\ reqs[s].pc \in {"page", "count", "insert", "select",
                       "stats1", "stats2", "stats3"}
    /\ InternalError(s, reqs[s], DriverError(dbType))
    /\ UNCHANGED <<probe, inits, posts, dbType, phase, exitCode, initPc, runs, schema, users,
                   events, userSeq, eventSeq, now, conn>>

\* the response has been sent and the slot takes the next request
Retire(s) ==
    /\ Serving(s, "done")
    /\ reqs' = [reqs EXCEPT ![s] = NoRequest]
    /\ UNCHANGED <<probe, inits, posts, dbType, phase, exitCode, initPc, runs, schema, users,
                   events, userSeq, eventSeq, now, conn>>

----------------------------------------------------------------------------
(* Specification *)

\* the process has just been started on an empty store
InitStore ==
    /\ dbType \in {"postgresql", "sqlite"}
    /\ phase = "initializing"
    /\ exitCode = -1
    /\ initPc = InitStart
    /\ runs = 1
    /\ schema = {}
    /\ users = <<>>
    /\ events = <<>>
    /\ userSeq = 0
    /\ eventSeq = 0
    /\ now = 0
    /\ conn = OpenHandle(dbType)
    /\ posts = <<>>
    /\ inits = 0

\* ... and serves one connection at a time
InitServer == InitStore /\ reqs = [s \in Slots |-> NoRequest]

Init == InitServer /\ probe = NoProbe

Next ==
    \/ CreateUsersTable
    \/ CreateEventsTable
    \/ CreateIndexes
    \/ SeedAdminUser
    \/ SeedRegularUser
    \/ SeedSampleEvent
    \/ InitializeFails
    \/ StartListening
    \/ Shutdown
    \/ StartProcess
    \/ Tick
    \/ \E s \in Slots :
         \/ ArriveGetEvents(s)
         \/ ExecPage(s)
         \/ ExecCount(s)
         \/ ArrivePostEvents(s)
         \/ ExecInsert(s)
         \/ ExecSelect(s)
         \/ ArriveGetStats(s)
         \/ ExecStats(s)
         \/ ArriveGetMe(s)
         \/ QueryFails(s)
         \/ Retire(s)

Spec == Init /\ [][Next]_vars

----------------------------------------------------------------------------
(* The adapter called by itself: db.query(text, params) of config/database.js *)

MaxTemplateLen == 3     \* placeholders in a template
MaxParams == 3          \* values in a parameter list
MaxInserts == 2         \* rows a direct caller adds to the events table

SeqsUpTo(S, n) == UNION {[1..k -> S] : k \in 0..n}

\* templates in the canonical style: each entry n is an occurrence of $n
Templates == SeqsUpTo(1..MaxTemplateLen, MaxTemplateLen)

ParamLists == SeqsUpTo({TextV(<<"a">>), TextV(<<"b">>)}, MaxParams)

\* a template and a parameter list are given; nothing has been bound yet
InitBind ==
    /\ InitServer
    /\ probe \in {[called |-> FALSE, tpl |-> t, params |-> ps] :
                    t \in Templates, ps \in ParamLists}

\* each backend's query function binds the parameters to the template: the
\* networked one takes the template as it is, the embedded one rewrites it
Bind ==
    /\ ~probe.called
    /\ probe' = [probe EXCEPT !.called = TRUE] @@
                [pg |-> PgBind(probe.tpl, probe.params),
                 sqlite |-> SqliteBind(SqliteRewrite(probe.tpl), probe.params)]
    /\ UNCHANGED <<inits, posts, dbType, phase, exitCode, initPc, runs, schema,
                   users, events, userSeq, eventSeq, now, conn, reqs>>

SpecBind == InitBind /\ [][Bind]_vars

S_select == <<"s","e","l","e","c","t">>
S_with == <<"w","i","t","h">>
S_Select == <<"S","e","l","e","c","T">>
S_insert == <<"i","n","s","e","r","t">>
S_VALUES == <<"V","A","L","U","E","S">>

\* statements a caller of the adapter sends, with their parameters: the
\* health check's SELECT 1 in several spellings, a row read and a row
\* written as the events routes do, a row written through a CTE, a table made
AdapterCalls ==
    { <<Stmt(t, "select_one", <<>>, <<>>), <<>>>> :
        t \in {Kw_SELECT, S_select, <<" ">> \o S_Select, Indent(6) \o Kw_SELECT,
               Kw_WITH, <<" ", "\n">> \o S_with, S_VALUES,
               <<"(">> \o Kw_SELECT, <<"-", "-", "\n">> \o Kw_SELECT} }
    \cup { <<SelectEventByIdStmt, <<IntV(i)>>>> : i \in {1, 99} }
    \cup { <<Stmt(t, "insert_event", <<>>, Dollars(6)),
             InsertEventParams(b, [id |-> 1])>> :
             t \in {Kw_INSERT, Indent(8) \o S_insert, Kw_WITH},
             b \in {B(S_Yemen, S_Other, Given(7), D_Jul01, <<>>),
                    B(S_Yemen, S_Other, Given(7),
                      <<"2","0","2","4","-","1","3","-","4","5">>, <<>>)} }
    \cup { <<CreateUsersTableStmt, <<>>>> }

\* the promise of the call settles: the store has changed as the statement
\* said and the caller holds what the promise resolved with, or its rejection
Settled(c, fault, r) ==
    /\ Len(r.st.events) <= Len(sampleEvents) + MaxInserts
    /\ SetStore(r.st)
    /\ probe' = [called |-> TRUE, stmt |-> c[1], params |-> c[2],
                 fault |-> fault, before |-> St, ok |-> r.ok,
                 code |-> r.code, keys |-> r.keys, rows |-> r.rows,
                 rowCount |-> r.rowCount, insertId |-> r.insertId]

\* one call of db.query by a caller of the module, once the schema is there;
\* the driver may fail whatever the statement
AdapterQuery ==
    /\ phase = "listening"
    /\ \E c \in AdapterCalls, fault \in BOOLEAN :
         Settled(c, fault, DbQuery(dbType, c[1], c[2], St, now, TRUE, fault))
    /\ UNCHANGED <<inits, posts, dbType, phase, exitCode, initPc, runs, now, reqs>>

NextAdapter ==
    \/ CreateUsersTable
    \/ CreateEventsTable
    \/ CreateIndexes
    \/ SeedAdminUser
    \/ SeedRegularUser
    \/ SeedSampleEvent
    \/ StartListening
    \/ AdapterQuery

SpecAdapter == Init /\ [][NextAdapter]_vars


----------------------------------------------------------------------------
(* Token issuer and verifier, login: routes/auth.js, middleware/auth.js *)

\* token lifetime in seconds of the model clock (JWT_EXPIRES_IN)
TokenLifetime == 1

SigningKey == "JWT_SECRET"

\* the token minted with the default role instead of the account's
IssueWithoutRole(u, clk) ==
    [wellFormed |-> TRUE, key |-> SigningKey, id |-> u.id,
     username |-> u.username, role |-> S_user, iat |-> clk,
     exp |-> clk + TokenLifetime]

\* issue(userId, username, role): the claims, signed with the process-wide
\* key, with the time of issue and the expiry
Issue(u, clk) ==
    [wellFormed |-> TRUE, key |-> SigningKey, id |-> u.id,
     username |-> u.username, role |-> u.role, iat |-> clk,
     exp |-> clk + TokenLifetime]


\* the verifier looking at the expiry before the signature
VerifyExpiryFirst(tok, clk) ==
    IF tok.wellFormed /\ clk >= tok.exp THEN "expired"
    ELSE IF ~tok.wellFormed THEN "malformed"
    ELSE IF tok.key # SigningKey THEN "signature"
    ELSE "valid"

\* verify(token): the token is parsed, then its signature is checked, then
\* its expiry; the three failures are told apart
Verify(tok, clk) ==
    IF ~tok.wellFormed THEN "malformed"
    ELSE IF tok.key # SigningKey THEN "signature"
    ELSE IF clk >= tok.exp THEN "expired"
    ELSE "valid"

\* the bearer token as the gate sees it once the verifier has spoken
Presented(tok, clk) ==
    [kind |-> Verify(tok, clk), id |-> tok.id, username |-> tok.username,
     role |-> tok.role]

\* verify(plaintext, hash) of the credential store
BcryptCompare(plain, hash) == hash[2] = plain

\* validationRules.login, username: 3 to 50 characters of [a-zA-Z0-9_]
LoginValidation(cred) ==
    IF /\ Len(cred.username) \in 3..50
       /\ \A i \in 1..Len(cred.username) :
              cred.username[i] \in Range(Upper) \cup Range(Lower)
                                    \cup Range(Digits) \cup {"_"}
    THEN 0 ELSE 422

Cred(username, password) == [username |-> username, password |-> password]

\* bodies of POST /api/auth/login sent in the model
Credentials ==
    { Cred(S_admin, "admin123"), Cred(S_user, "user123"),
      Cred(S_admin, "wrongpassword"), Cred(S_user, "admin123"),
      Cred(<<"n","o","b","o","d","y">>, "admin123"), Cred(<<"a","b">>, "123") }

\* the outcome of POST /api/auth/login: 422, 401, or 200 with the user and a
\* token issued to the account of that username
LoginOutcome(cred, found, clk) ==
    IF LoginValidation(cred) # 0
    THEN [status |-> 422, user |-> NoUser, tokens |-> <<>>]
    ELSE IF Len(found) = 0 \/ ~BcryptCompare(cred.password, found[1].password_hash)
    THEN [status |-> 401, user |-> NoUser, tokens |-> <<>>]
    ELSE [status |-> 200,
          user |-> [id |-> found[1].id, username |-> found[1].username,
                    role |-> found[1].role],
          tokens |-> <<Issue(found[1], clk)>>]

\* POST /api/auth/login
Login ==
    /\ phase = "listening"
    /\ \E cred \in Credentials :
         probe' = [called |-> TRUE, op |-> "login", cred |-> cred, at |-> now,
                   out |-> LoginOutcome(cred, UserByName(users, cred.username), now)]
    /\ UNCHANGED <<inits, posts, dbType, phase, exitCode, initPc, runs, schema,
                   users, events, userSeq, eventSeq, now, conn, reqs>>

\* what a client may send as the bearer token after a login: the token it
\* was given, that token with a claim changed (the signature no longer fits),
\* or a text that is no token
Bearers(tok) ==
    { [how |-> "issued", tok |-> tok],
      [how |-> "tampered", tok |-> [tok EXCEPT !.role = S_admin, !.key = "none"]],
      [how |-> "garbled", tok |-> [tok EXCEPT !.wellFormed = FALSE]] }

\* GET /api/auth/me with a bearer token derived from the last login
Me ==
    /\ phase = "listening"
    /\ probe.called /\ probe.op = "login" /\ probe.out.status = 200
    /\ \E b \in Bearers(probe.out.tokens[1]) :
         probe' = [called |-> TRUE, op |-> "me", cred |-> probe.cred,
                   how |-> b.how, tok |-> b.tok, at |-> now,
                   verdict |-> Verify(b.tok, now),
                   out |-> RunChain(AuthMeChain, Presented(b.tok, now), NoUser)]
    /\ UNCHANGED <<inits, posts, dbType, phase, exitCode, initPc, runs, schema,
                   users, events, userSeq, eventSeq, now, conn, reqs>>

NextAuth ==
    \/ CreateUsersTable
    \/ CreateEventsTable
    \/ CreateIndexes
    \/ SeedAdminUser
    \/ SeedRegularUser
    \/ SeedSampleEvent
    \/ StartListening
    \/ Tick
    \/ Login
    \/ Me

SpecAuth == Init /\ [][NextAuth]_vars

----------------------------------------------------------------------------
(* Input validation middleware: middleware/security.js *)

\* a JSON string that reads as a whole number: an optional sign, then digits
IsNumeral(s) ==
    /\ Unsigned(s) # <<>>
    /\ \A i \in 1..Len(Unsigned(s)) : IsDigit(Unsigned(s)[i])

\* the values of the event_type enumeration
EventTypes ==
    { S_ArmedConflict,
      <<"C","i","v","i","l"," ","U","n","r","e","s","t">>,
      <<"T","e","r","r","o","r","i","s","m">>,
      <<"B","o","r","d","e","r"," ","D","i","s","p","u","t","e">>,
      S_Other }

\* the month and the day of a text in YYYY-MM-DD form
MonthOf(d) == 10 * DigitVal(d[6]) + DigitVal(d[7])
DayOf(d) == 10 * DigitVal(d[9]) + DigitVal(d[10])

\* isISO8601() on a date written with hyphens: four digits, a month 01..12
\* and a day 01..31 (without the strict option the day is not checked
\* against the month)
IsISO8601(d) ==
    DateRegexTest(d) /\ MonthOf(d) \in 1..12 /\ DayOf(d) \in 1..31

\* isInt({ min: 0, max: 1000000 }) on the field as a string
IsIntInRange(f) ==
    /\ f.given
    /\ IF IsText(f)
       THEN IsNumeral(f.s) /\ ParseInt(f.s).v \in 0..1000000
       ELSE f.v \in 0..1000000

\* validationRules.createEvent, one rule per field in the order of the
\* list; latitude and longitude are optional and not sent in the model
RuleFails(field, body) ==
    CASE field = "country" -> Len(body.country) \notin 2..100
      [] field = "event_type" -> body.event_type \notin EventTypes
      [] field = "fatalities" -> ~IsIntInRange(body.fatalities)
      [] field = "date" -> ~IsISO8601(body.date)
      [] field = "description" -> Len(body.description) \notin 10..1000

CreateEventFields == <<"country", "event_type", "fatalities", "date", "description">>

\* validateInput(validations): errors.array() as { [err.path]: err.msg }
\* entries; empty when next() is called
ValidateInput(body) == SelectSeq(CreateEventFields, LAMBDA f : RuleFails(f, body))

----------------------------------------------------------------------------
(* Properties of the schema initializer *)

\* the rows of the events table that carry the data of a sample event
SampleRows(k) ==
    SelectSeq(events, LAMBDA e :
        /\ e.country = sampleEvents[k].country
        /\ e.event_type = sampleEvents[k].event_type
        /\ e.fatalities = sampleEvents[k].fatalities
        /\ e.date = sampleEvents[k].date
        /\ e.description = sampleEvents[k].description)

UsersNamed(name) == SelectSeq(users, LAMBDA u : u.username = name)

\* C1: once initializeDatabase has run to its end twice on a store that was
\* empty, there is exactly one admin and one user account and every seeded
\* sample event is in the events table exactly once.
C1_InitTwiceNoDuplicates ==
    inits >= 2 =>
        /\ Len(UsersNamed(S_admin)) = 1
        /\ Len(UsersNamed(S_user)) = 1
        /\ \A k \in 1..Len(sampleEvents) : Len(SampleRows(k)) = 1

----------------------------------------------------------------------------
(* Properties of GET /api/events *)

GetEvents(r) == r.route = "GET /api/events" /\ r.nq >= 1

\* C2: the page, the limit and the offset that the handler of GET /api/events
\* puts into its page query and its response are a page >= 1, a limit >= 1
\* and an offset >= 0, whatever the query string held.
C2_PageLimitCoerced ==
    \A s \in Slots :
        GetEvents(reqs[s]) =>
            LET b == BuildPageQuery(reqs[s].query)
                n == Len(b.params)
            IN /\ PageOf(reqs[s].query) >= 1
               /\ b.params[n - 1].n >= 1
               /\ b.params[n].n >= 0

\* the filters of a statement and the values bound to them
FiltersOf(b) == <<b.stmt.conds, SubSeq(b.params, 1, Len(b.stmt.conds))>>

\* the page statement without LIMIT and OFFSET, run on the store
Unpaginated(q) ==
    LET b == BuildPageQuery(q)
    IN FilteredJoin(b.stmt.conds, SubSeq(b.params, 1, Len(b.stmt.conds)),
                    St, TRUE)

\* every combination of the four filters, present or not
FilterQueries ==
    { Q(c, t, sd, ed, Absent, Absent) :
        c \in {<<>>, <<"a">>}, t \in {<<>>, <<"t">>},
        sd \in {<<>>, D_Feb01}, ed \in {<<>>, D_Apr05} }

Idle == \A s \in DOMAIN reqs : reqs[s].pc = "idle"

\* C3: the count statement of GET /api/events carries the filters of the page
\* statement with the same values in the same order, its total is the number
\* of rows of the page statement without LIMIT and OFFSET, and the total of a
\* 200 response is that number.
C3_CountIsUnpaginatedLength ==
    /\ (phase = "listening" /\ Idle) =>
         \A q \in FilterQueries :
            LET c == BuildCountQuery(q)
                r == DbQuery(dbType, c.stmt, c.params, St, now, TRUE, FALSE)
            IN /\ FiltersOf(c) = FiltersOf(BuildPageQuery(q))
               /\ r.ok => /\ Len(r.rows) = 1
                          /\ r.rows[1].total = Len(Unpaginated(q))
    /\ \A s \in Slots :
         (GetEvents(reqs[s]) /\ reqs[s].pc = "done" /\ reqs[s].status = 200) =>
             reqs[s].resp.total = Len(Unpaginated(reqs[s].query))

\* a 200 response whose filters keep some events and drop others
C3_Witness ==
    \E s \in Slots :
        /\ GetEvents(reqs[s]) /\ reqs[s].pc = "done" /\ reqs[s].status = 200
        /\ reqs[s].query.end_date # <<>>
        /\ reqs[s].resp.total >= 1
        /\ reqs[s].resp.total < Len(events)


----------------------------------------------------------------------------
(* Properties of the gate *)

Protected ==
    {"GET /api/events", "POST /api/events", "GET /api/events/stats",
     "GET /api/auth/me"}

HandlerSteps ==
    {"page", "count", "insert", "select", "stats1", "stats2", "stats3"}

\* the request of slot s has been answered with the status and a failure body
Refused(r, status) ==
    /\ r.pc = "done"
    /\ r.status = status
    /\ r.resp.success = FALSE
    /\ r.nq = 0

\* C4: a request to a protected route whose token does not verify (absent,
\* malformed or expired) is answered 401 with success false; the handler of
\* the route never runs for it: it sends no query and answers no data.
C4_UnauthenticatedGets401 ==
    \A s \in Slots :
        (reqs[s].route \in Protected /\ reqs[s].token.kind # "valid") =>
            /\ Refused(reqs[s], 401)
            /\ reqs[s].pc \notin HandlerSteps
            /\ reqs[s].rows = <<>>

\* a GET /api/events that carried an expired token has been answered 401
C4_Witness ==
    \E s \in Slots :
        /\ reqs[s].route = "GET /api/events"
        /\ reqs[s].token.kind = "expired"
        /\ Refused(reqs[s], 401)

PostEvents(r) == r.route = "POST /api/events"

\* C5: on POST /api/events the token is checked before the role: without a
\* valid token the answer is 401 and never 403; with a valid token of a user
\* who is not admin it is 403; the handler sends its insert only for a valid
\* admin token, and the events table changes while the server is listening
\* only when such a request's insert runs.
C5_AuthnBeforeAuthz ==
    /\ [](\A s \in Slots :
            PostEvents(reqs[s]) =>
              /\ reqs[s].token.kind # "valid" => Refused(reqs[s], 401)
              /\ (reqs[s].token.kind = "valid" /\ reqs[s].token.role # "admin")
                    => Refused(reqs[s], 403)
              /\ reqs[s].nq >= 1 =>
                    /\ reqs[s].token.kind = "valid"
                    /\ reqs[s].token.role = "admin")
    /\ [][(phase = "listening" /\ events' # events) =>
             \E s \in Slots :
                /\ PostEvents(reqs[s]) /\ reqs[s].pc = "insert"
                /\ reqs[s].token.kind = "valid" /\ reqs[s].token.role = "admin"
                /\ Len(events') = Len(events) + 1]_vars

\* a POST /api/events with the valid token of the regular user is answered 403
C5_Witness ==
    \E s \in Slots :
        /\ PostEvents(reqs[s])
        /\ reqs[s].token.kind = "valid" /\ reqs[s].token.role = "user"
        /\ Refused(reqs[s], 403)
        /\ events # <<>>

----------------------------------------------------------------------------
(* Properties of the startup *)

SchemaReady ==
    /\ {"users", "events"} \subseteq schema
    /\ Len(UsersNamed(S_admin)) = 1
    /\ Len(UsersNamed(S_user)) = 1
    /\ \A k \in 1..Len(sampleEvents) : Len(SampleRows(k)) >= 1

\* C6: the server listens, and so serves a request, only after
\* initializeDatabase has run to its end in this process: the tables and the
\* seeded rows are there.  app.listen is called from the end of the
\* initialization only, and the process exits with code 1 only out of an
\* initialization that did not reach its end, without having listened.
C6_ListenOnlyAfterInit ==
    /\ [](/\ phase = "listening" => (initPc.at = "done" /\ SchemaReady)
          /\ \A s \in Slots : reqs[s].pc # "idle" => phase = "listening"
          /\ (phase = "exited" /\ exitCode = 1) => initPc.at # "done")
    /\ [][/\ phase' = "listening" =>
               (phase = "listening" \/ (phase = "initializing" /\ initPc.at = "done"))
          /\ (phase = "initializing" /\ initPc.at # "done") =>
               (phase' = "initializing" \/ (phase' = "exited" /\ exitCode' \in {0, 1}))
          /\ (phase = "listening" /\ phase' = "exited") => exitCode' = 0]_vars

\* the second process of a store is listening and has answered a request
C6_Witness ==
    /\ phase = "listening" /\ runs = 2
    /\ \E s \in Slots : reqs[s].pc = "done" /\ reqs[s].status = 200


----------------------------------------------------------------------------
(* Properties of the query adapter *)

\* C7: for a template in the canonical style and a parameter list that the
\* networked backend binds, the embedded backend binds every placeholder
\* occurrence to the same value, also when a placeholder occurs twice or the
\* placeholders are not in ascending order.
C7_SameBindingOnBothBackends ==
    (probe.called /\ probe.pg.ok) =>
        /\ probe.sqlite.ok
        /\ probe.sqlite.vals = probe.pg.vals

\* C8: the page and count statements of GET /api/events are in the style
\* that the adapter of either backend takes, so a request with page >= 1 and
\* limit >= 1 is answered 200 on the networked and on the embedded backend
\* unless the driver itself fails.
C8_GetStatementsPortable ==
    \A s \in Slots :
        (GetEvents(reqs[s]) /\ PageOf(reqs[s].query) >= 1
                            /\ LimitOf(reqs[s].query) >= 1) =>
            /\ \A b \in {BuildPageQuery(reqs[s].query),
                         BuildCountQuery(reqs[s].query)} :
                  /\ PgBind(b.stmt.ph, b.params).ok
                  /\ SqliteBind(SqliteRewrite(b.stmt.ph), b.params).ok
            /\ reqs[s].pc = "done" =>
                  \/ reqs[s].status = 200
                  \/ reqs[s].resp.logged = DriverError(dbType)

\* the text without the whitespace in front of it
LeadingSpaces(text) ==
    CHOOSE k \in 0..Len(text) :
        /\ \A i \in 1..k : text[i] \in {" ", "\n"}
        /\ k < Len(text) => text[k + 1] \notin {" ", "\n"}

\* the text reads word at position k + 1, whatever the case of its letters
HasWordAt(text, k, word) ==
    /\ Len(text) >= k + Len(word)
    /\ \A i \in 1..Len(word) :
          \E j \in 1..Len(Lower) :
             /\ word[i] = Lower[j]
             /\ text[k + i] \in {Lower[j], Upper[j]}

ReadByItsText(text) ==
    \/ HasWordAt(text, LeadingSpaces(text), S_select)
    \/ HasWordAt(text, LeadingSpaces(text), S_with)

\* C9: on the embedded backend a call of db.query that the driver fails
\* rejects and resolves nothing; a statement whose text, whitespace trimmed
\* and case ignored, starts with SELECT or WITH resolves with the rows of the
\* statement and nothing else; every other statement resolves with an empty
\* row list, the affected-row count and the last-inserted id as the driver
\* reports them (for an insert: one row, the id of the row it added).
C9_SqliteClassification ==
    (probe.called /\ dbType = "sqlite") =>
        /\ probe.fault => (~probe.ok /\ probe.before = St)
        /\ ~probe.ok => (probe.keys = {} /\ probe.rows = <<>>)
        /\ (probe.ok /\ ReadByItsText(probe.stmt.text)) =>
              /\ probe.keys = {"rows"}
              /\ probe.rows =
                   Execute("sqlite", probe.stmt, probe.params, probe.before,
                           now, TRUE).rows
        /\ (probe.ok /\ ~ReadByItsText(probe.stmt.text)) =>
              /\ probe.keys = {"rows", "rowCount", "insertId"}
              /\ probe.rows = <<>>
              /\ probe.rowCount = conn.changes
              /\ probe.insertId = conn.lastID
              /\ probe.stmt.op = "insert_event" =>
                    /\ probe.rowCount = 1
                    /\ Len(events) = Len(probe.before.events) + 1
                    /\ probe.insertId = events[Len(events)].id

\* an insert sent with a lower-case, indented text has resolved on the
\* embedded backend with the id of the row it added
C9_Witness ==
    /\ probe.called /\ dbType = "sqlite" /\ probe.ok
    /\ probe.stmt.text = Indent(8) \o S_insert
    /\ probe.insertId = Len(sampleEvents) + 1
    /\ EventById(events, probe.insertId) # <<>>


----------------------------------------------------------------------------
(* Properties of POST /api/events *)

\* the row carries the fields of the body as the handler binds them
RowOfBody(e, body) ==
    /\ e.country = body.country
    /\ e.event_type = body.event_type
    /\ e.fatalities = FatalitiesNum(body).v
    /\ e.date = body.date
    /\ e.description = body.description

ValidBody(body) == PostValidation(body) = 0 /\ IsCalendarDate(body.date)

\* C10: on both backends a 201 of POST /api/events carries exactly the row
\* that this request added to the events table: the last row of the table,
\* with the id the store generated for it, the fields of the body and
\* created_by equal to the id of the authenticated user; and a valid body
\* sent by an admin who has a row in users is answered 201 unless the driver
\* fails.
C10_CreatedRowReturned ==
    \A s \in Slots :
        (PostEvents(reqs[s]) /\ reqs[s].pc = "done") =>
            /\ reqs[s].status = 201 =>
                  /\ reqs[s].resp.success
                  /\ Len(reqs[s].resp.event) = 1
                  /\ reqs[s].resp.event[1] = events[Len(events)]
                  /\ reqs[s].resp.event[1].id = eventSeq
                  /\ Len(EventById(events, eventSeq)) = 1
                  /\ RowOfBody(reqs[s].resp.event[1], reqs[s].body)
                  /\ reqs[s].resp.event[1].created_by = reqs[s].token.id
                  /\ reqs[s].nq = IF dbType = "postgresql" THEN 1 ELSE 2
            /\ (reqs[s].token.kind = "valid" /\ reqs[s].token.role = "admin"
                  /\ UserById(users, reqs[s].token.id) # <<>>
                  /\ ValidBody(reqs[s].body)) =>
                  \/ reqs[s].status = 201
                  \/ reqs[s].resp.logged = DriverError(dbType)

\* the embedded backend has answered 201 with the sixth row of the table,
\* found by the id its insert reported
C10_Witness ==
    \E s \in Slots :
        /\ dbType = "sqlite"
        /\ PostEvents(reqs[s]) /\ reqs[s].pc = "done" /\ reqs[s].status = 201
        /\ reqs[s].insertId = IntV(Len(sampleEvents) + 1)
        /\ reqs[s].resp.event[1].id = Len(sampleEvents) + 1
        /\ reqs[s].resp.event[1].created_by = 1

----------------------------------------------------------------------------
(* Error kinds of POST /api/events *)

\* what the two stores report for a unique-key, foreign-key, not-null or
\* check violation
ConstraintCodes == {"23505", "23503", "23502", "23514", "SQLITE_CONSTRAINT"}

DriverCodes == {DriverError("postgresql"), DriverError("sqlite")}

\* the POST handler answered from its catch block
PostFailed(r) == PostEvents(r) /\ r.pc = "done" /\ "logged" \in DOMAIN r.resp

\* C11: when a query of POST /api/events fails, a constraint violation of
\* either backend is answered with a status in 400..499 and a driver failure
\* with a status in 500..599.
C11_ConstraintIs400DriverIs500 ==
    \A s \in Slots :
        PostFailed(reqs[s]) =>
            /\ reqs[s].resp.logged \in ConstraintCodes =>
                  reqs[s].status \in 400..499
            /\ reqs[s].resp.logged \in DriverCodes =>
                  reqs[s].status \in 500..599

----------------------------------------------------------------------------
(* Seeding of the accounts *)

\* C12: seeding is insert-if-absent: no step of initializeDatabase removes or
\* changes a user row that exists when the step is taken, so a row with
\* username 'admin' or 'user' keeps its id, password_hash and role, although
\* each run hashes the default passwords with a salt of its own.
C12_SeedingNeverOverwrites ==
    [][phase = "initializing" =>
          \A i \in 1..Len(users) :
              Len(users') >= i /\ users'[i] = users[i]]_vars

\* the second run has passed both account inserts and the rows still carry
\* the hashes of the first run
C12_Witness ==
    /\ runs = 2 /\ phase = "initializing" /\ initPc.at = "seedEvents"
    /\ Len(users) = 2
    /\ users[1].username = S_admin
    /\ users[1].password_hash = BcryptHash("admin123", 1)
    /\ users[2].username = S_user
    /\ users[2].password_hash = BcryptHash("user123", 1)

----------------------------------------------------------------------------
(* Invariants of the event rows *)

\* the fatalities field as it was sent
NotANumber(f) == f.given /\ IsText(f) /\ f.s # <<>> /\ ~IsNumeral(f.s)
Negative(f) ==
    /\ f.given
    /\ IF IsText(f) THEN IsNumeral(f.s) /\ FirstIsMinus(f.s) /\ Decimal(Unsigned(f.s)) > 0
       ELSE f.v < 0

\* the insert of the request has been executed and added a row
Inserted(r) == PostEvents(r) /\ (r.pc = "select" \/ r.status = 201)

\* C13: every event row has a fatalities value that is an integer >= 0, and
\* a POST /api/events whose fatalities is negative or not a number inserts
\* nothing.
C13_FatalitiesNonNegative ==
    /\ \A i \in 1..Len(events) : events[i].fatalities \in Nat
    /\ \A s \in Slots :
          Inserted(reqs[s]) =>
              /\ ~Negative(reqs[s].body.fatalities)
              /\ ~NotANumber(reqs[s].body.fatalities)

\* the part of C13 about the stored rows
C13_RowsNonNegative ==
    \A i \in 1..Len(events) : events[i].fatalities \in Nat

\* C14: every event row's date is a real calendar day written YYYY-MM-DD;
\* POST /api/events never inserts a date such as month 13 or day 45.
C14_DatesAreCalendarDates ==
    \A i \in 1..Len(events) : IsCalendarDate(events[i].date)

\* C15: every event row, seeded or created through POST /api/events, has an
\* event_type that is one of Armed Conflict, Civil Unrest, Terrorism, Border
\* Dispute, Other.
C15_EventTypeInEnum ==
    \A i \in 1..Len(events) : events[i].event_type \in EventTypes

----------------------------------------------------------------------------
(* Frame of the API *)

GetRoutes == {"GET /api/events", "GET /api/events/stats"}

\* slot s takes a step of a request to one of the two GET routes of the
\* events router and no other slot moves
GetStep(s) ==
    /\ reqs[s].route \in GetRoutes \/ reqs'[s].route \in GetRoutes
    /\ reqs'[s] # reqs[s]
    /\ \A t \in Slots \ {s} : reqs'[t] = reqs[t]

\* C16: while the server is serving requests, every event row that exists
\* stays where it is with all its fields unchanged (rows are only added), no
\* user row is added, removed or changed, and a step of GET /api/events or
\* GET /api/events/stats leaves the whole store unchanged.
C16_AppendOnlyFromApi ==
    [][phase = "listening" =>
          /\ Len(events') >= Len(events)
          /\ \A i \in 1..Len(events) : events'[i] = events[i]
          /\ users' = users
          /\ (\E s \in Slots : GetStep(s)) => store' = store]_vars

\* a POST has added a row after the seeded ones and a later GET /api/events
\* has been answered from the larger table
C16_Witness ==
    \E s \in Slots :
        /\ phase = "listening"
        /\ Len(events) > Len(sampleEvents) /\ Len(posts) = 1
        /\ GetEvents(reqs[s]) /\ reqs[s].pc = "done" /\ reqs[s].status = 200
        /\ reqs[s].resp.total = Len(events)

----------------------------------------------------------------------------
(* Round trip of an event *)

\* a body that satisfies the data model: country of 2 to 100 characters, an
\* event_type of the enumeration, fatalities an integer >= 0, a calendar
\* date and a description of 10 to 1000 characters
ValidEvent(body) ==
    /\ Len(body.country) \in 2..100
    /\ body.event_type \in EventTypes
    /\ body.fatalities.given /\ ~IsText(body.fatalities) /\ body.fatalities.v >= 0
    /\ IsCalendarDate(body.date)
    /\ Len(body.description) \in 10..1000

\* a query string with no filter but a country that is the country of the
\* body up to the case of its letters, and the default page
MatchingCountryQuery(q, body) ==
    /\ ToLowerCase(q.country) = ToLowerCase(body.country)
    /\ q.event_type = <<>> /\ q.start_date = <<>> /\ q.end_date = <<>>
    /\ ~q.page.given /\ ~q.limit.given

DriverFailed(r) ==
    r.status = 500 /\ r.resp.logged \in DriverCodes

\* the response lists the event created from the body with the submitted
\* values
Returned(r, c) ==
    \E j \in 1..Len(r.resp.events) :
        /\ r.resp.events[j].id = c.id
        /\ r.resp.events[j].country = c.body.country
        /\ r.resp.events[j].event_type = c.body.event_type
        /\ r.resp.events[j].fatalities = c.body.fatalities.v
        /\ r.resp.events[j].date = c.body.date
        /\ r.resp.events[j].description = c.body.description

RoundTrip(r) ==
    \A k \in 1..Len(posts) :
        (ValidEvent(posts[k].body) /\ MatchingCountryQuery(r.query, posts[k].body)
            /\ ~DriverFailed(r)) =>
            r.status = 200 /\ Returned(r, posts[k])

\* C17: once a valid event body has been created through POST /api/events,
\* a GET /api/events with a matching country filter returns that event with
\* the country, event_type, fatalities, date and description that were
\* submitted, also when the texts contain &, <, > or quotes.
C17_RoundTrip ==
    \A s \in Slots :
        (GetEvents(reqs[s]) /\ reqs[s].pc = "done") => RoundTrip(reqs[s])

\* the round trip on the embedded backend alone
C17_RoundTripEmbedded ==
    \A s \in Slots :
        (dbType = "sqlite" /\ GetEvents(reqs[s]) /\ reqs[s].pc = "done") =>
            RoundTrip(reqs[s])

\* the embedded backend has answered a matching GET after the body with the
\* special characters was created
C17_EmbeddedWitness ==
    \E s \in Slots :
        /\ dbType = "sqlite"
        /\ GetEvents(reqs[s]) /\ reqs[s].pc = "done" /\ reqs[s].status = 200
        /\ Len(posts) = 1 /\ posts[1].body.description = S_Clashes
        /\ MatchingCountryQuery(reqs[s].query, posts[1].body)

----------------------------------------------------------------------------
(* Properties of login and token verification *)

\* the account of a username, as the gate hands an identity on
Account(name) ==
    [id |-> UserByName(users, name)[1].id,
     username |-> UserByName(users, name)[1].username,
     role |-> UserByName(users, name)[1].role]

\* C18: a login with valid credentials is answered 200 with the id, username
\* and role of the account, and verifying the access token it issued, as
\* GET /api/auth/me does, yields that same id, username and role as long as
\* the token has not expired.
C18_LoginThenVerify ==
    /\ (probe.called /\ probe.op = "login") =>
          /\ probe.out.status = 200 <=>
                /\ UserByName(users, probe.cred.username) # <<>>
                /\ UserByName(users, probe.cred.username)[1].password_hash[2]
                       = probe.cred.password
          /\ probe.out.status = 200 => probe.out.user = Account(probe.cred.username)
    /\ (probe.called /\ probe.op = "me" /\ probe.how = "issued") =>
          /\ probe.at < probe.tok.exp => probe.out.ok
          /\ probe.out.ok => probe.out.user = Account(probe.cred.username)

\* the token of the non-admin account has been verified and gave its identity
C18_Witness ==
    /\ probe.called /\ probe.op = "me" /\ probe.how = "issued"
    /\ probe.cred.username = S_user
    /\ probe.out.ok /\ probe.out.user.role = S_user
    /\ probe.out.user.id = 2

\* C19: verifying a token the server issued whose expiry time has passed
\* fails with the reason 'expired', never 'invalid'; a malformed token and a
\* token whose signature does not fit fail with reasons of their own, never
\* with 'expired', also when their expiry time has passed.
C19_ExpiredIsNotInvalid ==
    (probe.called /\ probe.op = "me") =>
        /\ (probe.how = "issued" /\ probe.at >= probe.tok.exp) =>
              /\ probe.verdict = "expired"
              /\ ~probe.out.ok /\ probe.out.status = 401
              /\ probe.out.reason = "expired"
        /\ probe.how = "garbled" =>
              /\ probe.verdict = "malformed"
              /\ ~probe.out.ok /\ probe.out.status = 401
              /\ probe.out.reason # "expired"
        /\ probe.how = "tampered" =>
              /\ probe.verdict = "signature"
              /\ ~probe.out.ok /\ probe.out.status = 401
              /\ probe.out.reason # "expired"

\* a token issued at a login has been presented after its expiry
C19_Witness ==
    /\ probe.called /\ probe.op = "me" /\ probe.how = "issued"
    /\ probe.tok.iat = 0 /\ probe.at = TokenLifetime
    /\ probe.out.reason = "expired"

----------------------------------------------------------------------------
(* Validation of the body of POST /api/events *)

\* the request passed the gate of POST /api/events and has been answered
PostAnswered(r) ==
    /\ PostEvents(r) /\ r.pc = "done"
    /\ r.token.kind = "valid" /\ r.token.role = S_admin

\* C20: a POST /api/events whose body violates a rule of
\* validationRules.createEvent is answered 422 with success=false and an
\* errors list with one entry for each offending field, its handler sends no
\* query and nothing is inserted; a body that passes every rule is not
\* answered 422 and reaches the handler's insert.
C20_ValidationAnswers422 ==
    \A s \in Slots :
        PostAnswered(reqs[s]) =>
            IF ValidateInput(reqs[s].body) # <<>>
            THEN /\ reqs[s].status = 422
                 /\ ~reqs[s].resp.success
                 /\ "errors" \in DOMAIN reqs[s].resp
                 /\ reqs[s].resp.errors = ValidateInput(reqs[s].body)
                 /\ reqs[s].nq = 0
            ELSE reqs[s].status # 422 /\ reqs[s].nq >= 1

----------------------------------------------------------------------------
(* Rate limiting: server.js *)

MaxExcess == 2          \* requests counted beyond a limiter's max in one window

\* limiter: max: 100
GeneralMax == 100
\* authLimiter: max: process.env.NODE_ENV === "production" ? 5 : 50
AuthMaxProduction == 5
AuthMaxDevelopment == 50

AuthMax(env) == IF env = "production" THEN AuthMaxProduction ELSE AuthMaxDevelopment

\* paths requested by the one client address of the model
Paths == {"/health", "/api/auth/login", "/api/auth/me", "/api/events"}

\* app.use("/api/auth", authLimiter, authRoutes)
UnderAuth(path) == path \in {"/api/auth/login", "/api/auth/me"}

\* rateLimit({ windowMs, max }): every request of the key is counted, and it
\* goes on to the next middleware while the count is within max
RateLimit(max, hits) == [hits |-> hits + 1, pass |-> hits + 1 <= max]

\* the two stores have counted nothing yet
Unlimited(env) ==
    [called |-> FALSE, env |-> env, general |-> 0, auth |-> 0, passed |-> 0,
     authPassed |-> 0, last |-> [path |-> "", status |-> 0, handled |-> FALSE]]

\* what a request does to the counters: app.use(limiter) first, then
\* authLimiter when the path is under /api/auth; a limiter that does not
\* pass answers 429 and the request ends there
Limited(p, path, g, a) ==
    [p EXCEPT !.called = TRUE,
              !.general = g.hits,
              !.auth = IF g.pass /\ UnderAuth(path) THEN a.hits ELSE @,
              !.passed = IF g.pass /\ (UnderAuth(path) => a.pass) THEN @ + 1 ELSE @,
              !.authPassed = IF g.pass /\ UnderAuth(path) /\ a.pass THEN @ + 1 ELSE @,
              !.last = [path |-> path,
                        status |-> IF g.pass /\ (UnderAuth(path) => a.pass)
                                   THEN 200 ELSE 429,
                        handled |-> g.pass /\ (UnderAuth(path) => a.pass)]]

LimitedRequest ==
    /\ phase = "listening"
    /\ probe.general < GeneralMax + MaxExcess
    /\ \E path \in Paths :
         /\ UnderAuth(path) => probe.auth < AuthMax(probe.env) + MaxExcess
         /\ probe' = Limited(probe, path, RateLimit(GeneralMax, probe.general),
                             RateLimit(AuthMax(probe.env), probe.auth))
    /\ UNCHANGED <<inits, posts, dbType, phase, exitCode, initPc, runs, schema,
                   users, events, userSeq, eventSeq, now, conn, reqs>>

\* windowMs have passed: a store forgets its counts
WindowElapses ==
    /\ phase = "listening"
    /\ \E which \in {"limiter", "authLimiter"} :
         probe' = IF which = "limiter"
                  THEN [probe EXCEPT !.general = 0, !.passed = 0]
                  ELSE [probe EXCEPT !.auth = 0, !.authPassed = 0]
    /\ probe' # probe
    /\ UNCHANGED <<inits, posts, dbType, phase, exitCode, initPc, runs, schema,
                   users, events, userSeq, eventSeq, now, conn, reqs>>

InitLimiter ==
    /\ InitServer
    /\ probe \in {Unlimited(env) : env \in {"production", "development"}}

NextLimiter ==
    \/ CreateUsersTable
    \/ CreateEventsTable
    \/ CreateIndexes
    \/ SeedAdminUser
    \/ SeedRegularUser
    \/ SeedSampleEvent
    \/ StartListening
    \/ LimitedRequest
    \/ WindowElapses

SpecLimiter == InitLimiter /\ [][NextLimiter]_vars

----------------------------------------------------------------------------
(* C21: within one window of a limiter at most 100 requests of an address  *)
(* are passed on to a route and at most 5 to the /api/auth routes; every   *)
(* further request is rejected without reaching a handler, and the counts  *)
(* start again with the next window.                                       *)

C21_RateLimits ==
    phase = "listening" =>
        /\ probe.passed <= 100
        /\ probe.authPassed <= 5
        /\ probe.general > 100 => ~probe.last.handled
        /\ UnderAuth(probe.last.path) /\ probe.auth > 5 => ~probe.last.handled

\* the part of C21 that the code keeps: the general limit, and the limit of
\* the auth routes as the environment sets it
C21_LimitsOfTheEnvironment ==
    phase = "listening" =>
        /\ probe.passed <= GeneralMax
        /\ probe.authPassed <= AuthMax(probe.env)
        /\ probe.called /\ ~probe.last.handled => probe.last.status = 429

----------------------------------------------------------------------------
(* Global error handler: server.js *)

\* an error passed to next(err): its message, its stack and, for the errors
\* of the body parser and of http-errors, a status
Err(message, stack, status) == [message |-> message, stack |-> stack, status |-> status]

Errors ==
    { Err(m, st, status) :
        m \in {"connect ECONNREFUSED 10.0.0.5:5432",
               "relation \"users\" does not exist",
               "Unexpected token } in JSON at position 12"},
        st \in {"at Pool.query (/srv/app/node_modules/pg/lib/pool.js:45)",
                "at parse (/srv/app/node_modules/body-parser/lib/types/json.js:89)"},
        status \in {Absent, Given(400), Given(413), Given(503)} }

\* the handler written with the test of the environment the wrong way round
ErrorHandlerLeaking(env, err) ==
    [status |-> IF err.status.given /\ err.status.v # 0 THEN err.status.v ELSE 500,
     body |-> IF env # "production"
              THEN [success |-> FALSE, message |-> "Internal server error"]
              ELSE [success |-> FALSE, message |-> err.message, stack |-> err.stack]]

\* app.use((err, req, res, next) => { ... res.status(err.status || 500).json(
\*   { success: false, message, ...(NODE_ENV !== "production" && { stack }) }) })
ErrorHandler(env, err) ==
    [status |-> IF err.status.given /\ err.status.v # 0 THEN err.status.v ELSE 500,
     body |-> IF env = "production"
              THEN [success |-> FALSE, message |-> "Internal server error"]
              ELSE [success |-> FALSE, message |-> err.message, stack |-> err.stack]]

\* two requests are about to fail, each with an error of its own
InitErrors ==
    /\ InitServer
    /\ probe \in {[called |-> FALSE, env |-> env, e1 |-> e1, e2 |-> e2] :
                    env \in {"production", "development"},
                    e1 \in Errors, e2 \in Errors}

\* both errors reach the handler and both responses are sent
HandleErrors ==
    /\ ~probe.called
    /\ probe' = [probe EXCEPT !.called = TRUE] @@
                [r1 |-> ErrorHandler(probe.env, probe.e1),
                 r2 |-> ErrorHandler(probe.env, probe.e2)]
    /\ UNCHANGED <<inits, posts, dbType, phase, exitCode, initPc, runs, schema,
                   users, events, userSeq, eventSeq, now, conn, reqs>>

SpecErrors == InitErrors /\ [][HandleErrors]_vars

----------------------------------------------------------------------------
(* C22: in production the response of the global error handler does not    *)
(* depend on the error's message or stack: two errors with the same status *)
(* get identical responses (message 'Internal server error', no stack),    *)
(* and the status is the error's own when it has one and 500 otherwise.    *)

C22_NoLeakInProduction ==
    probe.called /\ probe.env = "production" =>
        /\ probe.e1.status = probe.e2.status => probe.r1 = probe.r2
        /\ \A r \in {probe.r1, probe.r2} :
             /\ r.body.message = "Internal server error"
             /\ "stack" \notin DOMAIN r.body
        /\ \A k \in {1, 2} :
             LET e == <<probe.e1, probe.e2>>[k]
                 r == <<probe.r1, probe.r2>>[k]
             IN r.status = IF e.status.given THEN e.status.v ELSE 500

\* two errors that differ in message and stack but not in status have been
\* answered in production
C22_Witness ==
    /\ probe.called /\ probe.env = "production"
    /\ probe.e1.message # probe.e2.message
    /\ probe.e1.stack # probe.e2.stack
    /\ probe.e1.status = probe.e2.status
    /\ probe.e1.status = Given(503)
    /\ probe.r1 = probe.r2
    /\ probe.r1.status = 503

----------------------------------------------------------------------------
(* Connection pool of the networked backend: config/database.js *)

MaxQueries == 12        \* queries submitted to the pool
MaxWait == 2            \* ticks a query is seen waiting for a connection

\* new Pool({ host, port, database, user, password, ssl }): neither max nor
\* connectionTimeoutMillis is given, so the pool has the driver's ten
\* connections and no time limit on waiting for one (0)
PoolMax == 10
ConnectionTimeoutMillis == 0

PoolConfig == [max |-> PoolMax, connectionTimeoutMillis |-> ConnectionTimeoutMillis]

\* no query has been sent yet
PoolIdle ==
    [called |-> FALSE, submitted |-> 0, inUse |-> 0, waiting |-> <<>>,
     resolved |-> 0, rejected |-> 0, last |-> "none"]

\* pool.query(text, params): a free connection takes the query, otherwise
\* the query is put at the end of the pending queue
PoolSubmit(cfg, p) ==
    IF p.inUse < cfg.max
    THEN [p EXCEPT !.called = TRUE, !.submitted = @ + 1, !.inUse = @ + 1,
                   !.last = "running"]
    ELSE [p EXCEPT !.called = TRUE, !.submitted = @ + 1,
                   !.waiting = Append(@, 0), !.last = "queued"]

\* a query ends and its connection is released: the first pending query
\* takes the connection
PoolRelease(cfg, p) ==
    IF Len(p.waiting) > 0
    THEN [p EXCEPT !.resolved = @ + 1, !.waiting = Tail(@), !.last = "handed over"]
    ELSE [p EXCEPT !.resolved = @ + 1, !.inUse = @ - 1, !.last = "released"]

\* the timer of a pending query fires only when a time limit is configured
TimedOut(cfg, age) ==
    cfg.connectionTimeoutMillis > 0 /\ age >= cfg.connectionTimeoutMillis

\* time passes for the pending queries; those whose timer has fired are
\* rejected with 'timeout exceeded when trying to connect'
PoolWait(cfg, p) ==
    LET aged == [i \in 1..Len(p.waiting) |-> p.waiting[i] + 1]
        kept == SelectSeq(aged, LAMBDA a : ~TimedOut(cfg, a))
    IN [p EXCEPT !.waiting = kept,
                 !.rejected = @ + Len(aged) - Len(kept),
                 !.last = IF Len(kept) < Len(aged) THEN "timed out" ELSE "waited"]

Pooled == phase = "listening" /\ dbType = "postgresql"

SubmitQuery ==
    /\ Pooled
    /\ probe.submitted < MaxQueries
    /\ probe' = PoolSubmit(PoolConfig, probe)
    /\ UNCHANGED <<inits, posts, dbType, phase, exitCode, initPc, runs, schema,
                   users, events, userSeq, eventSeq, now, conn, reqs>>

QueryEnds ==
    /\ Pooled
    /\ probe.inUse > 0
    /\ probe' = PoolRelease(PoolConfig, probe)
    /\ UNCHANGED <<inits, posts, dbType, phase, exitCode, initPc, runs, schema,
                   users, events, userSeq, eventSeq, now, conn, reqs>>

QueriesWait ==
    /\ Pooled
    /\ Len(probe.waiting) > 0
    /\ \A i \in 1..Len(probe.waiting) : probe.waiting[i] < MaxWait
    /\ probe' = PoolWait(PoolConfig, probe)
    /\ UNCHANGED <<inits, posts, dbType, phase, exitCode, initPc, runs, schema,
                   users, events, userSeq, eventSeq, now, conn, reqs>>

InitPool == InitServer /\ dbType = "postgresql" /\ probe = PoolIdle

NextPool ==
    \/ CreateUsersTable
    \/ CreateEventsTable
    \/ CreateIndexes
    \/ SeedAdminUser
    \/ SeedRegularUser
    \/ SeedSampleEvent
    \/ StartListening
    \/ SubmitQuery
    \/ QueryEnds
    \/ QueriesWait

SpecPool == InitPool /\ [][NextPool]_vars

----------------------------------------------------------------------------
(* C23: on the networked backend a query sent while every pooled           *)
(* connection is in use waits in a queue instead of failing, up to a       *)
(* configured ceiling; beyond the ceiling the acquisition fails fast with  *)
(* a retriable error instead of waiting without bound.                     *)

C23_QueueHasCeiling ==
    Pooled =>
        /\ probe.inUse <= PoolConfig.max
        /\ probe.last = "queued" => probe.inUse = PoolConfig.max
        /\ \A i \in 1..Len(probe.waiting) :
             /\ PoolConfig.connectionTimeoutMillis > 0
             /\ probe.waiting[i] <= PoolConfig.connectionTimeoutMillis

\* the part of C23 that the code keeps: with every connection in use a
\* further query is queued and none is rejected
C23_QueuesInsteadOfFailing ==
    Pooled =>
        /\ probe.inUse <= PoolConfig.max
        /\ Len(probe.waiting) > 0 => probe.inUse = PoolConfig.max
        /\ probe.rejected = 0
        /\ probe.submitted = probe.inUse + Len(probe.waiting) + probe.resolved

----------------------------------------------------------------------------
(* Pagination of GET /api/events *)

\* the full filtered result of a query string in the order of the page
\* statement, rows equal in both keys in the order the store chose
OrderedMatches(q, tieAsc) ==
    LET b == BuildPageQuery(q)
    IN FilteredJoin(b.stmt.conds, SubSeq(b.params, 1, Len(b.stmt.conds)),
                    St, tieAsc)

\* positions (page-1)*limit .. page*limit-1, counted from 0, of a sequence
PageSlice(all, page, limit) ==
    SubSeq(all, (page - 1) * limit + 1, Min(Len(all), page * limit))

\* query strings that ask for each page of a result, by limit
PagedQueries ==
    { Q(c, <<>>, <<>>, <<>>, Given(1), Given(l)) :
        c \in {<<>>, <<"a">>}, l \in {1, 2, 4} }

\* the page statement of page p of a query string, run on the store
FetchPage(q, p, tieAsc) ==
    LET b == BuildPageQuery([q EXCEPT !.page = Given(p)])
    IN DbQuery(dbType, b.stmt, b.params, St, now, tieAsc, FALSE)

\* pages 1..pages, fetched one after another, hold every row of the result
PagesCover(q, tieAsc) ==
    LET all == OrderedMatches(q, tieAsc)
        pages == CeilDiv(Len(all), LimitOf(q)).v
    IN /\ \A p \in 1..pages :
            /\ FetchPage(q, p, tieAsc).ok
            /\ FetchPage(q, p, tieAsc).rows = PageSlice(all, p, LimitOf(q))
       /\ \A i \in 1..Len(all) :
            \E p \in 1..pages :
               \E j \in 1..Len(FetchPage(q, p, tieAsc).rows) :
                   FetchPage(q, p, tieAsc).rows[j] = all[i]

\* the response of a GET with page >= 1 and limit >= 1 holds the slice of
\* the ordered result and the number of pages
PageAnswered(r) ==
    /\ r.status = 200
    /\ \E tieAsc \in BOOLEAN :
         r.resp.events = PageSlice(OrderedMatches(r.query, tieAsc),
                                   PageOf(r.query), LimitOf(r.query))
    /\ r.resp.pages.finite
    /\ r.resp.pages.v * LimitOf(r.query) >= r.resp.total
    /\ (r.resp.pages.v - 1) * LimitOf(r.query) < r.resp.total \/ r.resp.total = 0
    /\ r.resp.total = Len(OrderedMatches(r.query, TRUE))

PagedGet(r) ==
    /\ GetEvents(r) /\ r.pc = "done"
    /\ PageOf(r.query) >= 1 /\ LimitOf(r.query) >= 1
    /\ ~DriverFailed(r)

\* C24: for page >= 1 and limit >= 1 over an unchanged events table the page
\* statement returns the rows at positions (page-1)*limit .. page*limit-1 of
\* the filtered result ordered by date descending, then creation time
\* descending, the response reports pages = ceil(total / limit), and pages
\* 1..pages together hold every matching event.
C24_PagesAreSlices ==
    /\ \A s \in Slots : PagedGet(reqs[s]) => PageAnswered(reqs[s])
    /\ (phase = "listening" /\ Idle) =>
          \A q \in PagedQueries, tieAsc \in BOOLEAN : PagesCover(q, tieAsc)

\* the same on the embedded backend alone
C24_PagesAreSlicesEmbedded ==
    dbType = "sqlite" =>
        /\ \A s \in Slots : PagedGet(reqs[s]) => PageAnswered(reqs[s])
        /\ (phase = "listening" /\ Idle) =>
              \A q \in PagedQueries, tieAsc \in BOOLEAN : PagesCover(q, tieAsc)

\* the embedded backend has answered the second page of two rows of a
\* result of more than four rows
C24_EmbeddedWitness ==
    \E s \in Slots :
        /\ dbType = "sqlite" /\ PagedGet(reqs[s]) /\ reqs[s].status = 200
        /\ PageOf(reqs[s].query) = 2 /\ LimitOf(reqs[s].query) = 2
        /\ Len(reqs[s].resp.events) = 2
        /\ reqs[s].resp.total > 4
        /\ reqs[s].resp.pages.v = 3

----------------------------------------------------------------------------
(* Filters of GET /api/events *)

\* part occurs in text as a run of consecutive characters, letters compared
\* without their case
ContainsIgnoringCase(text, part) ==
    \E i \in 1..(Len(text) - Len(part) + 1) :
        SubSeq(ToLowerCase(text), i, i + Len(part) - 1) = ToLowerCase(part)

\* the event satisfies every filter that the query string supplies
Selected(e, q) ==
    /\ q.country # <<>> => ContainsIgnoringCase(e.country, q.country)
    /\ q.event_type # <<>> => ContainsIgnoringCase(e.event_type, q.event_type)
    /\ q.start_date # <<>> => TextLeq(q.start_date, e.date)
    /\ q.end_date # <<>> => TextLeq(e.date, q.end_date)

SelectedEvents(q) == SelectSeq(events, LAMBDA e : Selected(e, q))

\* C25: GET /api/events selects exactly the events that satisfy every filter
\* supplied: country and event_type match when the stored value contains the
\* filter text ignoring case, whatever characters the text holds (% and _
\* included), start_date and end_date are inclusive bounds, and an absent
\* or empty filter excludes nothing.
C25_FiltersSelectExactly ==
    \A s \in Slots :
        (GetEvents(reqs[s]) /\ reqs[s].pc = "done" /\ reqs[s].status = 200) =>
            /\ reqs[s].resp.total = Len(SelectedEvents(reqs[s].query))
            /\ \A j \in 1..Len(reqs[s].resp.events) :
                 \E i \in 1..Len(events) :
                    /\ events[i].id = reqs[s].resp.events[j].id
                    /\ Selected(events[i], reqs[s].query)
            /\ (PageOf(reqs[s].query) = 1 /\ LimitOf(reqs[s].query) >= Len(events)) =>
                 \A i \in 1..Len(events) :
                    Selected(events[i], reqs[s].query) =>
                       \E j \in 1..Len(reqs[s].resp.events) :
                          reqs[s].resp.events[j].id = events[i].id

\* a filter text is plain when it holds neither of the characters that LIKE
\* reads as a pattern
Plain(text) == \A i \in 1..Len(text) : text[i] \notin {"%", "_"}

\* the part of C25 that the code keeps: filter texts without % and _
C25_PlainFiltersSelectExactly ==
    \A s \in Slots :
        (GetEvents(reqs[s]) /\ reqs[s].pc = "done" /\ reqs[s].status = 200
            /\ Plain(reqs[s].query.country) /\ Plain(reqs[s].query.event_type)) =>
            /\ reqs[s].resp.total = Len(SelectedEvents(reqs[s].query))
            /\ \A j \in 1..Len(reqs[s].resp.events) :
                 \E i \in 1..Len(events) :
                    /\ events[i].id = reqs[s].resp.events[j].id
                    /\ Selected(events[i], reqs[s].query)

----------------------------------------------------------------------------
(* Foreign keys of the embedded backend *)

\* every event row names no user or a user that exists
ReferencesHold ==
    \A i \in 1..Len(events) :
        events[i].created_by = 0 \/ Len(UserById(users, events[i].created_by)) > 0

\* C26: on the embedded backend foreign-key enforcement is switched on on the
\* handle when the handle is made, before any statement of db.query runs, so
\* that no event row is inserted whose created_by names a user that does not
\* exist.
C26_ForeignKeysEnforcedFromTheStart ==
    dbType = "sqlite" =>
        /\ conn.foreign_keys
        /\ ReferencesHold
        /\ \A s \in Slots :
             (PostEvents(reqs[s]) /\ reqs[s].pc = "done"
                 /\ Len(UserById(users, reqs[s].token.id)) = 0) =>
                reqs[s].status # 201

\* the embedded backend has rejected the insert of an event whose created_by
\* is the id of no user
C26_Witness ==
    \E s \in Slots :
        /\ dbType = "sqlite"
        /\ PostEvents(reqs[s]) /\ reqs[s].pc = "done"
        /\ reqs[s].nq = 1
        /\ reqs[s].user.id = FormerAdmin.id
        /\ reqs[s].resp.logged = "SQLITE_CONSTRAINT"
        /\ ReferencesHold

----------------------------------------------------------------------------
(* Choice of the backend: config/database.js *)

\* the choice written as an opt-in: networked only when DB_TYPE asks for it
SelectBackendOptIn(DB_TYPE, pgConstructs) ==
    IF DB_TYPE = "postgres" /\ pgConstructs THEN "postgresql" ELSE "sqlite"

\* const usePostgreSQL = process.env.DB_TYPE !== "sqlite";
\* if (usePostgreSQL) { try { require("pg"); new Pool(...); db = {...} }
\*                      catch (error) { db = null } }
\* if (!db) { ... db = { type: "sqlite", ... } }
SelectBackend(DB_TYPE, pgConstructs) ==
    IF DB_TYPE # "sqlite" /\ pgConstructs THEN "postgresql" ELSE "sqlite"

\* the environment of the process: DB_TYPE unset, or set as setup-db.sh
\* sets it, and whether require("pg") and new Pool succeed
Environments ==
    {[DB_TYPE |-> t, pgConstructs |-> c] :
        t \in {"", "sqlite", "postgres"}, c \in BOOLEAN}

\* config/database.js has loaded in the environment of the process
InitBackend ==
    /\ InitServer
    /\ probe \in Environments
    /\ dbType = SelectBackend(probe.DB_TYPE, probe.pgConstructs)

\* the process runs, answers requests that query the store, fails on driver
\* errors, ends and is started again in the same environment
NextBackend ==
    \/ CreateUsersTable
    \/ CreateEventsTable
    \/ CreateIndexes
    \/ SeedAdminUser
    \/ SeedRegularUser
    \/ SeedSampleEvent
    \/ InitializeFails
    \/ StartListening
    \/ Shutdown
    \/ StartProcess
    \/ \E s \in Slots :
         \/ ArriveGetStats(s)
         \/ ExecStats(s)
         \/ QueryFails(s)
         \/ Retire(s)

SpecBackend == InitBackend /\ [][NextBackend]_vars

----------------------------------------------------------------------------
(* C27: the backend is chosen once, when the database module loads, and    *)
(* db.type never changes afterwards; the embedded backend is used only     *)
(* when DB_TYPE is 'sqlite' or the networked driver cannot be constructed  *)
(* at load time, and a networked backend that becomes unreachable later    *)
(* makes queries fail instead of switching to the embedded backend.        *)

C27_BackendChosenOnce ==
    /\ [](/\ dbType \in {"postgresql", "sqlite"}
          /\ dbType = "sqlite" <=>
                (probe.DB_TYPE = "sqlite" \/ ~probe.pgConstructs)
          /\ \A s \in Slots :
               (reqs[s].pc = "done" /\ reqs[s].status = 500
                   /\ probe.DB_TYPE # "sqlite" /\ probe.pgConstructs) =>
                  dbType = "postgresql")
    /\ [][dbType' = dbType]_vars

\* a query of the networked backend has failed for the connection in a second
\* process run, and the backend is still the networked one
C27_Witness ==
    \E s \in Slots :
        /\ probe.DB_TYPE = "" /\ probe.pgConstructs
        /\ runs = 2
        /\ reqs[s].pc = "done" /\ reqs[s].status = 500
        /\ reqs[s].resp.logged = "ECONNREFUSED"
        /\ dbType = "postgresql"

----------------------------------------------------------------------------
(* Statistics over a table of many countries *)

MaxCreated == 7         \* events an administrator adds before the statistics

\* countries of the events an administrator reports, beside those of the
\* sample events
NewCountries ==
    << <<"Y","e","m","e","n">>, <<"S","u","d","a","n">>, <<"M","a","l","i">>,
       <<"L","i","b","y","a">>, <<"I","r","a","q">>, <<"C","h","a","d">> >>

\* the k-th event reported: of a country not yet reported, or of the country
\* of the event reported before it
ReportedBodies ==
    LET named == Len(DistinctKeys(SelectSeq(events, LAMBDA e : e.id > Len(sampleEvents)),
                                  "country", <<>>))
    IN {B(NewCountries[i], S_ArmedConflict, Given(i), D_Jul01, <<>>) :
          i \in {n \in {named, named + 1} : n \in 1..Len(NewCountries)}}

\* POST /api/events of the seeded administrator with a body that passes the
\* checks of the handler, from its arrival to its response, no other request
\* being served meanwhile
CreateEvent ==
    /\ phase = "listening" /\ Idle
    /\ Len(posts) < MaxCreated
    /\ Len(UserByName(users, S_admin)) > 0
    /\ \E body \in ReportedBodies :
         LET r == DbQuery(dbType, InsertEventStmt(dbType),
                          InsertEventParams(body, UserByName(users, S_admin)[1]),
                          St, now, TRUE, FALSE)
         IN /\ PostValidation(body) = 0
            /\ r.ok
            /\ SetStore(r.st)
            /\ posts' = Append(posts, [id |-> r.st.eventSeq, body |-> body, by |-> 0])
    /\ UNCHANGED <<probe, inits, dbType, phase, exitCode, initPc, runs, now, reqs>>

NextStats ==
    \/ CreateUsersTable
    \/ CreateEventsTable
    \/ CreateIndexes
    \/ SeedAdminUser
    \/ SeedRegularUser
    \/ SeedSampleEvent
    \/ StartListening
    \/ CreateEvent
    \/ \E s \in Slots :
         \/ ArriveGetStats(s)
         \/ ExecStats(s)
         \/ Retire(s)

SpecStats == Init /\ [][NextStats]_vars

RECURSIVE SumCounts(_)
SumCounts(rows) ==
    IF Len(rows) = 0 THEN 0 ELSE rows[1].event_count + SumCounts(Tail(rows))

CountOf(col, key) == Len(SelectSeq(events, LAMBDA e : e[col] = key))

\* the rows name distinct values of the column, each with its number of events
GroupsOf(rows, col) ==
    /\ \A i \in 1..Len(rows) : rows[i].event_count = CountOf(col, rows[i].key)
    /\ \A i \in 1..Len(rows) : rows[i].event_count >= 1
    /\ \A i, j \in 1..Len(rows) : rows[i].key = rows[j].key => i = j

Listed(rows, key) == \E i \in 1..Len(rows) : rows[i].key = key

StatsAnswered(r) ==
    r.route = "GET /api/events/stats" /\ r.pc = "done" /\ r.status = 200

\* C28: GET /api/events/stats returns the overall totals, a by_country list
\* of at most 10 countries, which are those with the highest event counts in
\* descending order of event count, and a by_type list with one entry per
\* distinct event_type; over an unchanged table the event counts of by_type
\* sum to overall.total_events.
C28_Statistics ==
    \A s \in Slots :
        StatsAnswered(reqs[s]) =>
            LET d == reqs[s].resp
            IN /\ d.overall.total_events = Len(events)
               /\ d.overall.countries_affected =
                      Cardinality({events[i].country : i \in 1..Len(events)})
               /\ d.overall.event_types =
                      Cardinality({events[i].event_type : i \in 1..Len(events)})
               /\ Len(d.by_country) <= 10
               /\ Len(d.by_country) = Min(10, d.overall.countries_affected)
               /\ GroupsOf(d.by_country, "country")
               /\ \A i, j \in 1..Len(d.by_country) :
                     i < j => d.by_country[i].event_count >= d.by_country[j].event_count
               /\ \A k \in 1..Len(events) :
                     ~Listed(d.by_country, events[k].country) =>
                        \A i \in 1..Len(d.by_country) :
                           d.by_country[i].event_count >= CountOf("country", events[k].country)
               /\ GroupsOf(d.by_type, "event_type")
               /\ \A k \in 1..Len(events) : Listed(d.by_type, events[k].event_type)
               /\ SumCounts(d.by_type) = d.overall.total_events

\* statistics were answered over eleven countries, two of them with more
\* events than the others
C28_Witness ==
    \E s \in Slots :
        /\ StatsAnswered(reqs[s])
        /\ reqs[s].resp.overall.countries_affected = 11
        /\ Len(reqs[s].resp.by_country) = 10
        /\ reqs[s].resp.by_country[1].event_count = 2
        /\ reqs[s].resp.by_country[10].event_count = 1
        /\ Len(reqs[s].resp.by_type) >= 3

----------------------------------------------------------------------------
(* Two requests in flight: each awaits its queries while the other runs *)

\* two connections; each carries one request
Pair == {1, 2}

InitPair ==
    /\ InitStore
    /\ probe = NoProbe
    /\ reqs = [s \in Pair |-> NoRequest]

\* the first connection sends a GET or a POST /api/events, the second a
\* POST; the steps of the two handlers interleave at their awaits
NextPair ==
    \/ CreateUsersTable
    \/ CreateEventsTable
    \/ CreateIndexes
    \/ SeedAdminUser
    \/ SeedRegularUser
    \/ SeedSampleEvent
    \/ StartListening
    \/ ArriveGetEvents(1)
    \/ ExecPage(1)
    \/ ExecCount(1)
    \/ \E s \in Pair :
         \/ ArrivePostEvents(s)
         \/ ExecInsert(s)
         \/ ExecSelect(s)

SpecPair == InitPair /\ [][NextPair]_vars

\* the entry of posts made by the request of connection s
PostOf(s) == SelectSeq(posts, LAMBDA c : c.by = s)

\* the row is the event of the body, created by the user of the request
RowOfRequest(row, r) ==
    /\ row.country = r.body.country
    /\ row.event_type = r.body.event_type
    /\ row.fatalities = FatalitiesNum(r.body).v
    /\ row.date = r.body.date
    /\ row.description = r.body.description
    /\ row.created_by = r.user.id

\* C29: when two admin POST /api/events interleave on the embedded backend,
\* the insert id of each request is the id of the row that request inserted,
\* each 201 response holds the event of its own request and never the
\* other's, and both events are stored exactly once.
C29_OwnInsertId ==
    dbType = "sqlite" =>
        /\ \A s \in DOMAIN reqs :
             (PostEvents(reqs[s]) /\ reqs[s].nq = 2) =>
                /\ Len(PostOf(s)) = 1
                /\ reqs[s].insertId = IntV(PostOf(s)[1].id)
                /\ Len(EventById(events, PostOf(s)[1].id)) = 1
                /\ RowOfRequest(EventById(events, PostOf(s)[1].id)[1], reqs[s])
                /\ (reqs[s].pc = "done" /\ reqs[s].status = 201) =>
                      /\ Len(reqs[s].resp.event) = 1
                      /\ reqs[s].resp.event[1].id = PostOf(s)[1].id
                      /\ RowOfRequest(reqs[s].resp.event[1], reqs[s])
        /\ \A j, k \in 1..Len(posts) : posts[j].id = posts[k].id => j = k
        /\ Len(events) = Len(SelectSeq(events, LAMBDA e : e.id <= Len(sampleEvents)))
                            + Len(posts)

\* both requests were answered 201 with different events, the second
\* request's insert having run between the first one's insert and select
C29_Witness ==
    /\ dbType = "sqlite"
    /\ \A s \in Pair : PostEvents(reqs[s]) /\ reqs[s].pc = "done" /\ reqs[s].status = 201
    /\ reqs[1].body # reqs[2].body
    /\ reqs[1].resp.event[1].id < reqs[2].resp.event[1].id
    /\ conn.lastID = reqs[2].resp.event[1].id
    /\ Len(posts) = 2

\* C30: the events and the total of one GET /api/events response describe
\* the same state of the events table, also when a POST /api/events
\* completes between the page query and the count query of the GET: total
\* counts no event that was not eligible for the rows of the page.
C30_ListAndTotalAgree ==
    \A s \in DOMAIN reqs :
        (GetEvents(reqs[s]) /\ reqs[s].pc = "done" /\ reqs[s].status = 200
            /\ PageOf(reqs[s].query) = 1
            /\ LimitOf(reqs[s].query) >= reqs[s].resp.total) =>
            Len(reqs[s].resp.events) = reqs[s].resp.total

====
